---- MODULE Spec2Model ----
(***************************************************************************)
(* Better Lyrics Shaders: the content-script orchestration engine.         *)
(*                                                                         *)
(* Spec      the controller (gradientController.ts) driving the two        *)
(*           surface managers (shaderManager.ts, kawarpManager.ts) and the *)
(*           beat detector (audioAnalysis.ts) from settings messages,      *)
(*           colour messages and navigation-triggered reconciliations.     *)
(* SpecSave  the debounced album save (debouncedSaveAlbumColors) and the   *)
(*           album store (storage.ts).                                     *)
(*                                                                         *)
(* JavaScript runs handlers on one event loop; an async function runs      *)
(* synchronously up to an await on something that completes in a later     *)
(* macrotask (a timer, a network load, a storage call) and is resumed      *)
(* there.  One action of the model is one such run-to-suspension segment.  *)
(***************************************************************************)
EXTENDS Integers, Sequences, FiniteSets, TLC

(***************************************************************************)
(* Bounds of the model.                                                    *)
(***************************************************************************)
MaxTasks == 2          \* handler invocations (messages, reconciliations) per run
MaxImages == 1         \* distinct album artworks
MaxEnv == 1            \* page and artwork changes per run
MaxReq == 3            \* debounced save requests per run
MaxTime == 3           \* clock ticks in SpecSave (one tick = TICK_MS)
MaxAlbums == 2         \* distinct album artworks in SpecSave
MaxQuery == 1          \* distinct query strings of an artwork URL
MaxPalettes == 2       \* distinct colour lists saved
MaxCalls == 3          \* storage calls per run in SpecStore
MaxLoads == 2          \* overlapping loadAlbumSettings calls in SpecStore

(***************************************************************************)
(* Program constants.                                                      *)
(***************************************************************************)
DEBOUNCE_MS == 1000
TICK_MS == DEBOUNCE_MS \div 2
DEFAULT_audioSpeedMultiplier == 4
DEFAULT_audioScaleBoost == 1
DEFAULT_audioBeatThreshold == 105    \* 0.105, in thousandths
ANALYSIS_INTERVAL == 100
DEFAULT_kawarpAnimationSpeed == 1

Locs == {"player", "homepage", "search"}
Tasks == 1..MaxTasks

VARIABLES
  \* gradientController.ts
  gradientSettings,     \* the settings snapshot held by the controller
  dmRef,                \* which object dynamicMultipliers refers to
  lastImageSrc,         \* 0 = ""
  currentAlbumArtUrl,   \* 0 = ""
  \* audioAnalysis.ts
  reusableMultipliers,  \* the one object analyzeAudioFrame mutates in place
  audio,                \* [rafId, settings]: scheduled frame and its closure
  audioInit,            \* state.isInitialized
  \* shaderManager.ts
  shaders,              \* registry: location -> ShaderState
  leakedMounts,         \* undisposed ShaderMounts no registry record refers to:
                        \* overwritten in their record / held by a deleted record
  lastKnownColors,
  \* kawarpManager.ts
  kawarps,              \* registry: location -> KawarpState
  leakedInstances,      \* the same for Kawarp instances
  orphInst,             \* instance field of KawarpState objects deleted from the registry
  \* navigationManager.ts
  isProcessing, navTimer,
  \* the page
  dom,                  \* per location: target element absent / empty / ready
  art,                  \* artwork currently shown
  envLeft,              \* page and artwork changes still to come
  \* the event loop
  stacks,               \* per task: call stack of suspended async frames
  status,               \* per task: idle / running / done / rejected
  kind,                 \* per task: which handler it runs
  delta,                \* per settings task: the transition its snapshot made
  acted,                \* per task: it has issued a surface or beat-detector action
  actor,                \* the task the last step ran (0: none)
  stepActs,             \* what updateGradientSettings issued in the last step, in order
  \* SpecSave: gradientController.ts (the debounce) and storage.ts
  now,                     \* the clock, in ticks of TICK_MS
  albumSaveDebounceTimer,  \* the pending timer with what its callback captured
  store,                   \* the stored AlbumSettings: entries in insertion order
  saves,                   \* the saveAlbumColors calls in flight
  reqLog,                  \* the debouncedSaveAlbumColors calls so far
  writeLog,                \* the storage.saveAlbumColors calls so far
  \* SpecStore: storage.ts
  loads,                   \* the loadAlbumSettings calls in flight
  everManual,              \* album keys stored as manually modified since the last clear
  \* SpecRemember: gradientController.ts with rememberAlbumSettings on
  reqBy,                   \* per save request of a handler: the handler and its arguments
  useLog,                  \* the choices between saved and extracted colours so far
  \* SpecAudio: audioAnalysis.ts
  lastAnalysisTime,        \* state.lastAnalysisTime, in ms
  timestamp,               \* the timestamp of the latest animation frame, in ms
  dataArray,               \* state.dataArray: the time-domain samples last read
  tick,                    \* what the latest frame callback did
  stopped,                 \* stopAudioAnalysis has returned, startAudioAnalysis not called since
  \* SpecKawarp: kawarpManager.ts, the image of the player surface
  kawarpState,             \* the surface's KawarpState: instance, image and transition fields
  imageLoads,              \* the instance.loadImage calls in flight
  requested,               \* the image of the latest createKawarp / updateKawarpImage call
  requests,                \* the number of updateKawarpImage calls so far
  anyFailed,               \* some loadImage call was rejected
  \* SpecSettings: kawarpManager.ts, the settings of the player surface
  applied,                 \* the surface's instance options, lastSettings, lastMultipliers
                           \* and the latest updateKawarpSettings call
  \* SpecTarget: waitForTargetReady of shaderManager.ts and kawarpManager.ts
  targetWaits,             \* per manager: the waitForTargetReady call and its timers
  \* SpecDestroy: one key of kawarpManager's and of shaderManager's registry
  perKey,                  \* the key's state record with every field, and what the
                           \* page and the event loop hold for it
  \* SpecExtract, SpecBoost: colorExtraction.ts
  imageCache,              \* the palette cache, in insertion order
  extracts,                \* the extractColorsFromImage calls, in call order
  boosted,                 \* the latest boostDullColorSaturation call
  \* SpecFailure: storage.ts over a store whose get and set may reject
  settingsArea,            \* the value stored under GRADIENT_SETTINGS_STORAGE_KEY
  settingsCalls,           \* the loadGradientSettings / saveGradientSettings calls in flight
  outcomes,                \* what the calls of storage.ts that have returned gave back
  unhandledRejections,     \* rejected promises that nothing awaits or catches
  \* SpecRetry: the polling loops of initializeApp, audioAnalysis.ts and navigationManager
  retryLoops,              \* per loop: where it stands and how often it has polled
  awaited,                 \* what the loops wait for: is it there
  \* SpecArtwork: the animated-artwork module (shaderManager.ts, lines 844-1254)
  animatedArt,             \* its module variables, its lookups and the video element
  \* SpecEase: one KawarpState with its speeds in millionths
  ease,                    \* the record's speed fields, its instance and the calls made
  \* SpecCache: the extractions that fill the palette cache
  cacheLog,                \* the calls in flight, when each key was inserted, the evictions
  \* SpecMesh: one mesh surface and the controller variables its calls read
  mesh,                    \* the ShaderState, the mount's speed, the observer's closure
  \* SpecNavigation: navigationManager's debounce (src/unnamed/part_012, lines 10-142)
  nav                      \* its timers, isProcessing, the events and the runs so far

ctlVars == <<gradientSettings, dmRef, lastImageSrc, currentAlbumArtUrl,
             reusableMultipliers, audio,
             audioInit, shaders, leakedMounts, lastKnownColors, kawarps,
             leakedInstances, orphInst, isProcessing, navTimer, dom, art,
             envLeft, stacks, status, kind, delta, acted, actor, stepActs>>
saveVars == <<now, albumSaveDebounceTimer, store, saves, reqLog, writeLog>>
logVars == <<reqBy, useLog>>
frameVars == <<lastAnalysisTime, timestamp, dataArray, tick, stopped>>
\* the state of the specifications of single modules
kawarpVars == <<kawarpState, imageLoads, requested, requests, anyFailed>>
colorVars == <<imageCache, extracts, boosted>>
storageVars == <<settingsArea, settingsCalls, outcomes, unhandledRejections>>
retryVars == <<retryLoops, awaited>>
artVars == <<animatedArt>>
easeVars == <<ease>>
cacheVars == <<cacheLog>>
meshVars == <<mesh>>
navVars == <<nav>>
unitVars == <<frameVars, kawarpVars, applied, targetWaits, perKey, colorVars, storageVars,
             retryVars,
             artVars,
             easeVars,
             cacheVars,
             meshVars,
             navVars>>
extVars == <<loads, everManual, logVars, unitVars>>
vars == <<ctlVars, saveVars, extVars>>
\* what no handler of the controller writes
idleVars == <<now, saves, writeLog, loads, everManual, unitVars>>

(***************************************************************************)
(* Values.                                                                 *)
(***************************************************************************)
DEFAULT_DYNAMIC_MULTIPLIERS == [speedMultiplier |-> 1, scaleMultiplier |-> 100]
    \* scaleMultiplier in hundredths: 100 is 1.0

Null == [speedMultiplier |-> 0, scaleMultiplier |-> 0]   \* lastMultipliers: null

ShaderTypes == {"mesh", "kawarp"}

\* The fields of GradientSettings the controller branches on.  The numeric
\* rendering knobs are passed through to the renderer and are not modelled.
\* rememberAlbumSettings is at its default (false) in Spec; SpecSave covers
\* the save path it enables.
SettingsSnapshots ==
  [enabled : BOOLEAN, shaderType : ShaderTypes, audioResponsive : BOOLEAN,
   audioSpeedMultiplier : {DEFAULT_audioSpeedMultiplier},
   audioScaleBoost : {DEFAULT_audioScaleBoost},
   audioBeatThreshold : {DEFAULT_audioBeatThreshold},
   kawarpAnimationSpeed : {DEFAULT_kawarpAnimationSpeed},
   showOnBrowsePages : BOOLEAN, boostDullColors : BOOLEAN,
   rememberAlbumSettings : {FALSE}]

DEFAULT_GRADIENT_SETTINGS ==
  [enabled |-> TRUE, shaderType |-> "kawarp", audioResponsive |-> TRUE,
   audioSpeedMultiplier |-> DEFAULT_audioSpeedMultiplier,
   audioScaleBoost |-> DEFAULT_audioScaleBoost,
   audioBeatThreshold |-> DEFAULT_audioBeatThreshold,
   kawarpAnimationSpeed |-> DEFAULT_kawarpAnimationSpeed,
   showOnBrowsePages |-> FALSE, boostDullColors |-> TRUE,
   rememberAlbumSettings |-> FALSE]

\* The snapshots the popup sends while the controller holds `current'.  The
\* popup spreads its own copy of the settings, which comes from extension
\* storage, and sends the result to the active tab only (useContentScript
\* sendMessage): a control changes one key of that copy (handleToggleChange,
\* handleShaderTypeChange), "reset" sends the defaults
\* (handleResetAllGradientSettings).  The popup's copy equals `current' unless
\* earlier changes were delivered to another tab; popupGradientSettings is
\* one such copy, differing from the defaults in three keys.
popupGradientSettings ==
  [DEFAULT_GRADIENT_SETTINGS EXCEPT !.shaderType = "mesh",
                                    !.audioResponsive = FALSE,
                                    !.showOnBrowsePages = TRUE]

handleToggleChange(current) ==
  { [current EXCEPT !.enabled = ~current.enabled],
    [current EXCEPT !.shaderType = IF current.shaderType = "mesh" THEN "kawarp" ELSE "mesh"],
    [current EXCEPT !.audioResponsive = ~current.audioResponsive],
    [current EXCEPT !.showOnBrowsePages = ~current.showOnBrowsePages],
    [current EXCEPT !.boostDullColors = ~current.boostDullColors] }

PopupSnapshots(current) ==
  handleToggleChange(current) \cup {DEFAULT_GRADIENT_SETTINGS, popupGradientSettings}

NoLeak == [overwritten |-> 0, orphaned |-> 0]

NoTimer == [req |-> 0]    \* albumSaveDebounceTimer: null

createEmptyShaderState ==
  [mount |-> FALSE, colors |-> 0, lastMultipliers |-> Null]

createEmptyKawarpState ==
  [instance |-> FALSE, currentImageUrl |-> 0, lastSettings |-> 0,
   lastMultipliers |-> Null]
    \* lastSettings: the kawarp knobs last applied, 0 = null

\* The two modules that have a waitForTargetReady, and a module without a
\* call of it (SpecTarget).  phase: "idle", "wait" (the promise is pending and
\* the target not seen ready), "delay" (seen ready, the delay timer runs),
\* "true" / "false" (resolved); polls: the timer callbacks run while waiting
Managers == {"shaderManager", "kawarpManager"}
NoWait == [phase |-> "idle", loc |-> "-", polls |-> 0]

\* no boostDullColorSaturation call yet
NoBoost == [hslColors |-> <<>>, settings |-> <<>>, out |-> <<>>]

\* kawarpManager's createEmptyState with every field (SpecDestroy).  Element,
\* instance and observer fields: TRUE = an object, FALSE = null; image urls
\* and lastSettings: 0 = null; scales in hundredths
createEmptyState ==
  [backdrop |-> FALSE, container |-> FALSE, canvas |-> FALSE, instance |-> FALSE,
   currentImageUrl |-> 0, lastSettings |-> 0, lastMultipliers |-> Null,
   observer |-> FALSE, isVisible |-> TRUE, isTransitioning |-> FALSE,
   pendingImageUrl |-> 0, transitionTimeoutId |-> "null",
   currentScale |-> 100, targetScale |-> 100, scaleAnimationId |-> FALSE,
   currentSpeed |-> 1, targetSpeed |-> 1, speedAnimationId |-> FALSE,
   isPaused |-> FALSE]

\* shaderManager's createEmptyState with every field; colors: 0 = []
createEmptyState_shader ==
  [container |-> FALSE, mount |-> FALSE, colors |-> 0, colorVectors |-> 0,
   lastSettings |-> 0, lastMultipliers |-> Null, observer |-> FALSE,
   isVisible |-> TRUE]

\* A key of the kawarps map no call has touched.  has: the map has the key;
\* state: its record; live, running: the key's Kawarp instance exists (is
\* not disposed), renders; disposed: the dispose calls so far; attached: the
\* container and backdrop are in the page; observing: the
\* IntersectionObserver is connected; timer: the transition timeout is
\* pending; scaleFrame, speedFrame: the animation frame is requested;
\* fadeIn: createKawarp's 300 ms timer or the frame it requests is
\* pending; loading: the url of the loadImage a
\* transition of this record awaits, 0 = none; leaked: instances built on a
\* record that is no longer in the map
NoKawarp ==
  [has |-> FALSE, state |-> createEmptyState, live |-> FALSE, running |-> FALSE,
   disposed |-> 0, attached |-> FALSE, observing |-> FALSE, timer |-> FALSE,
   scaleFrame |-> FALSE, speedFrame |-> FALSE, fadeIn |-> FALSE,
   loading |-> 0, leaked |-> 0]

\* A key of the shaders map no call has touched; live: the ShaderMount
\* exists; fadeIn: createShader's animation frame is pending
NoShader ==
  [has |-> FALSE, state |-> createEmptyState_shader, live |-> FALSE,
   disposed |-> 0, attached |-> FALSE, observing |-> FALSE, fadeIn |-> FALSE,
   leaked |-> 0]

\* found: what the latest destroyKawarp / destroyShader call found: "-" (no
\* call yet), "none" (no handle), "idle" (a handle), "busy" (a handle and
\* work of it pending, see Busy and Busy_shader)
MaxLookups == 2        \* tryFetchArtwork calls that get past their guards, per run

\* a tryFetchArtwork call that has not been made
NoLookup == [pc |-> "-", videoId |-> 0, album |-> FALSE, aborted |-> FALSE, fetchNo |-> 0]

\* the animated-artwork module after initialize(false); video: the track whose
\* artwork the injected video element shows, 0 without element
NoArtwork ==
  [isEnabled |-> FALSE, currentPlayerData |-> 0, lastProcessedVideoId |-> 0,
   pendingFetch |-> 0, videoIdToAlbumMap |-> {}, artworkCache |-> {},
   video |-> 0, lookups |-> [i \in 1..MaxLookups |-> NoLookup],
   started |-> 0, fetches |-> 0, changes |-> {}]

\* createEmptyState of kawarpManager, speeds in millionths (1000000 = 1):
\* the fields pauseKawarp, resumeKawarp and animateSpeed use.  running,
\* animationSpeed: the Kawarp instance renders, its animationSpeed;
\* lastSettings, lastMultipliers: kawarpAnimationSpeed and speedMultiplier in
\* thousandths; calls, changes: the pauseKawarp and resumeKawarp calls and
\* the visibility changes so far; resumed: resumeKawarp was called on the
\* paused surface
NoEase ==
  [instance |-> FALSE, running |-> FALSE, animationSpeed |-> 0,
   isVisible |-> TRUE, isPaused |-> FALSE,
   currentSpeed |-> 1000000, targetSpeed |-> 1000000, speedAnimationId |-> FALSE,
   lastSettings |-> 0, lastMultipliers |-> 0,
   calls |-> 0, changes |-> 0, resumed |-> FALSE]

MaxCovers == 13        \* album covers, one more than the cache can hold twice over

\* No extraction yet.  calls: the extractColorsFromImage calls so far that
\* missed the cache; fresh: the covers seen so far are 1..fresh; pending:
\* the covers of the calls that missed the cache and have not stored;
\* inserts: the entries inserted so far; stamp[c]: cover c's entry was the
\* stamp[c]-th inserted, 0 = no entry; evictions: for each deleted entry its
\* cover and whether no entry was inserted before it
NoCacheLog ==
  [calls |-> 0, fresh |-> 0, pending |-> <<>>, inserts |-> 0,
   stamp |-> [c \in 1..MaxCovers |-> 0], evictions |-> {}]

\* createEmptyState of shaderManager and the controller's variables, settings
\* by their speed, multipliers by their speedMultiplier.  speed: what the
\* mount was made with or setSpeed last gave it; closure: the settings and
\* multipliers arguments of createShader that the observer callback
\* reads, the multipliers by the object they are ("default": an object no
\* one writes; "reusable": the one object audio analysis writes in place);
\* reusable: that object's speedMultiplier now; calls: handler runs so far
NoMesh ==
  [mount |-> FALSE, speed |-> 0, isVisible |-> TRUE, colors |-> 0,
   lastSettings |-> 0, lastMultipliers |-> 0,
   closure |-> [settings |-> 0, multipliers |-> "default"],
   gradientSettings |-> 1,
   dynamicMultipliers |-> [object |-> "default", speedMultiplier |-> 1],
   reusable |-> 1, calls |-> 0]

\* navigationManager after initialize.  timeoutId, navigationRetryTimeoutId:
\* the timer is pending; videoTimeouts: the pending 500 ms timers of
\* videoPlayHandler; lastVideoId: of navigationHandler; events: the page
\* events so far; runs: the updateCallback calls so far; unreconciled: an
\* artwork change or a navigation has happened and no updateCallback call
\* has started since
NoNav ==
  [timeoutId |-> FALSE, isProcessing |-> FALSE, navigationRetryTimeoutId |-> FALSE,
   videoTimeouts |-> 0, lastVideoId |-> 1, events |-> 0, runs |-> 0,
   unreconciled |-> FALSE]

\* initializeApp has not run
NoRetry ==
  [startup |-> [phase |-> "idle", retries |-> 0],
   audio |-> [phase |-> "idle", polls |-> 0],
   songImage |-> [phase |-> "idle", polls |-> 0]]

\* nothing is stored under GRADIENT_SETTINGS_STORAGE_KEY
NoStoredSettings == [stored |-> FALSE]

NoSurfaces ==
  [kawarp |-> NoKawarp, shader |-> NoShader,
   found |-> [kawarp |-> "-", shader |-> "-"]]

\* createEmptyState, the fields the settings updates use (SpecSettings), with
\* the options the Kawarp instance was given; update: the latest
\* updateKawarpSettings call, its arguments, the record it found and whether
\* it called setOptions
NoUpdate == [called |-> FALSE]
NoSurface ==
  [instance |-> FALSE, options |-> <<>>, opacity |-> 0, lastSettings |-> <<>>,
   lastMultipliers |-> Null, update |-> NoUpdate]

\* createEmptyState, the fields the image transitions use (SpecKawarp);
\* 0 = null; transitionTimeoutId: "null", "armed" (the timer is pending) or
\* "cleared" (the id of a timer that clearTimeout cancelled)
createEmptyImageState ==
  [instance |-> FALSE, currentImageUrl |-> 0, isTransitioning |-> FALSE,
   pendingImageUrl |-> 0, transitionTimeoutId |-> "null"]

\* A suspended async call.  loc: the surface it works on; oid: 0 while the
\* state record it captured is still the registry's record for loc, k > 0 once
\* that record was deleted from the registry (orphan number k); mref: the
\* multipliers object it was passed; colors, l: its other locals.
Frame(fn, pc) ==
  [fn |-> fn, pc |-> pc, loc |-> "-", oid |-> 0, mref |-> "-", colors |-> 0,
   l |-> <<>>]

(***************************************************************************)
(* The state a run-to-suspension segment reads and writes, as one record.  *)
(* ctl says how the segment goes on: a pending call of an async function,  *)
(* a result being handed to the awaiting frame, or nothing (the task is    *)
(* suspended at an await, or has finished).                                *)
(***************************************************************************)
Suspended == [op |-> "suspended"]

St ==
  [gs |-> gradientSettings, dmRef |-> dmRef, lastImageSrc |-> lastImageSrc,
   currentAlbumArtUrl |-> currentAlbumArtUrl,
   albumSaveDebounceTimer |-> albumSaveDebounceTimer, store |-> store,
   reqLog |-> reqLog, reqBy |-> reqBy, useLog |-> useLog, kind |-> kind,
   reusable |-> reusableMultipliers, audio |-> audio, audioInit |-> audioInit,
   shaders |-> shaders, leakedMounts |-> leakedMounts,
   lastKnownColors |-> lastKnownColors, kawarps |-> kawarps,
   leakedInstances |-> leakedInstances, orphInst |-> orphInst,
   isProcessing |-> isProcessing, dom |-> dom, art |-> art,
   stacks |-> stacks, status |-> status, acted |-> acted,
   stepActs |-> <<>>, didAct |-> FALSE, ctl |-> Suspended]

Commit(S) ==
  /\ gradientSettings' = S.gs
  /\ dmRef' = S.dmRef
  /\ lastImageSrc' = S.lastImageSrc
  /\ currentAlbumArtUrl' = S.currentAlbumArtUrl
  /\ albumSaveDebounceTimer' = S.albumSaveDebounceTimer
  /\ store' = S.store
  /\ reqLog' = S.reqLog
  /\ reqBy' = S.reqBy
  /\ useLog' = S.useLog
  /\ reusableMultipliers' = S.reusable
  /\ audio' = S.audio
  /\ shaders' = S.shaders
  /\ leakedMounts' = S.leakedMounts
  /\ lastKnownColors' = S.lastKnownColors
  /\ kawarps' = S.kawarps
  /\ leakedInstances' = S.leakedInstances
  /\ orphInst' = S.orphInst
  /\ isProcessing' = S.isProcessing
  /\ stacks' = S.stacks
  /\ status' = S.status
  /\ acted' = S.acted
  /\ stepActs' = S.stepActs

\* The value of a multipliers object: the controller's dynamicMultipliers is
\* either a constant {1, 1} object or an alias of reusableMultipliers.
MultOf(S, mref) ==
  IF mref = "reusable" THEN S.reusable ELSE DEFAULT_DYNAMIC_MULTIPLIERS

dynamicMultipliers == MultOf(St, dmRef)

\* The calls into the surface managers and the beat detector.
ManagerActions ==
  {"createShader", "ShaderMount", "destroyShader", "updateShaderColors",
   "updateShaderSettings", "createKawarp", "Kawarp", "destroyKawarp",
   "updateKawarpImage", "updateKawarpSettings", "updateKawarpSpeed",
   "startAudioAnalysis", "stopAudioAnalysis"}

\* Record that function fn, running in task t, issues action a.  The step's
\* log keeps what updateGradientSettings itself issues (and its helper
\* handleAudioResponsiveToggle); calls into the managers mark the task.
Log(S, t, fn, a) ==
  [S EXCEPT
     !.stepActs = IF fn \in {"updateGradientSettings", "handleAudioResponsiveToggle"}
                  THEN Append(@, <<t, fn, a[1], a[2]>>) ELSE @,
     !.didAct = @ \/ a[1] \in ManagerActions,
     !.acted[t] = @ \/ a[1] \in ManagerActions]

Top(S, t) == S.stacks[t][Len(S.stacks[t])]
Push(S, t, fr) == [S EXCEPT !.stacks[t] = Append(@, fr)]
Pop(S, t) == [S EXCEPT !.stacks[t] = SubSeq(@, 1, Len(@) - 1)]
SetTop(S, t, fr) == [S EXCEPT !.stacks[t][Len(S.stacks[t])] = fr]
SetPc(S, t, pc) == SetTop(S, t, [Top(S, t) EXCEPT !.pc = pc])

(***************************************************************************)
(* shaderManager.ts                                                        *)
(***************************************************************************)
hasShader(S, loc) == S.shaders[loc].mount

hasShaderAny(S) == \E loc \in Locs : S.shaders[loc].mount

\* Frames suspended in createShader(loc) hold the record that destroyShader
\* deletes from the map: from then on they write to an unregistered record.
OrphanShaderFrames(S, loc) ==
  [S EXCEPT !.stacks =
     [t \in Tasks |->
        [i \in 1..Len(S.stacks[t]) |->
           LET fr == S.stacks[t][i] IN
           IF fr.fn = "createShader" /\ fr.loc = loc /\ fr.oid = 0
           THEN [fr EXCEPT !.oid = 1] ELSE fr]]]

destroyShader(S, loc) ==
  OrphanShaderFrames([S EXCEPT !.shaders[loc] = createEmptyShaderState], loc)

destroyShaderAll(S) ==
  destroyShader(destroyShader(destroyShader(S, "player"), "homepage"), "search")

updateShaderColors(S, colors, m, loc) ==
  IF ~S.shaders[loc].mount THEN S
  ELSE [S EXCEPT !.shaders[loc].colors = colors,
                 !.shaders[loc].lastMultipliers = m,
                 !.lastKnownColors =
                    IF colors # S.shaders[loc].colors THEN colors ELSE @]

updateShaderSettings(S, m) ==
  [S EXCEPT !.shaders =
     [loc \in Locs |->
        IF S.shaders[loc].mount /\ S.shaders[loc].colors # 0
        THEN [S.shaders[loc] EXCEPT !.lastMultipliers = m]
        ELSE S.shaders[loc]]]

(***************************************************************************)
(* kawarpManager.ts                                                        *)
(***************************************************************************)
hasKawarp(S, loc) == S.kawarps[loc].instance

hasKawarpAny(S) == \E loc \in Locs : S.kawarps[loc].instance

KawarpFns == {"createKawarp", "updateKawarpImage"}

\* The frames suspended in createKawarp(loc) or updateKawarpImage(loc) that hold the deleted record all
\* hold the same one: they get one fresh orphan number.  destroyKawarp has set
\* that record's instance to null.
OrphanKawarpFrames(S, loc) ==
  LET holders == {t \in Tasks : \E i \in 1..Len(S.stacks[t]) :
                     LET fr == S.stacks[t][i] IN
                     fr.fn \in KawarpFns /\ fr.loc = loc /\ fr.oid = 0}
      used == UNION {{S.stacks[t][i].oid : i \in 1..Len(S.stacks[t])} : t \in Tasks}
      k == CHOOSE n \in Tasks : n \notin used /\ \A m \in Tasks : m < n => m \in used
  IN IF holders = {} THEN S
     ELSE [S EXCEPT
       !.orphInst[k] = FALSE,
       !.stacks =
         [t \in Tasks |->
            [i \in 1..Len(S.stacks[t]) |->
               LET fr == S.stacks[t][i] IN
               IF fr.fn \in KawarpFns /\ fr.loc = loc /\ fr.oid = 0
               THEN [fr EXCEPT !.oid = k] ELSE fr]]]

destroyKawarp(S, loc) ==
  OrphanKawarpFrames([S EXCEPT !.kawarps[loc] = createEmptyKawarpState], loc)

destroyKawarpAll(S) ==
  destroyKawarp(destroyKawarp(destroyKawarp(S, "player"), "homepage"), "search")

updateKawarpSpeed(S, m) ==
  [S EXCEPT !.kawarps =
     [loc \in Locs |->
        IF S.kawarps[loc].instance
        THEN [S.kawarps[loc] EXCEPT !.lastMultipliers = m]
        ELSE S.kawarps[loc]]]

\* The kawarp rendering knobs of a snapshot (of the six compared, the one
\* the model carries).
KawarpKnobs(settings) == settings.kawarpAnimationSpeed

settingsEqual(a, b) == a # 0 /\ a = KawarpKnobs(b)

updateKawarpSettings(S, settings, m) ==
  [S EXCEPT !.kawarps =
     [loc \in Locs |->
        IF S.kawarps[loc].instance /\ ~settingsEqual(S.kawarps[loc].lastSettings, settings)
        THEN [S.kawarps[loc] EXCEPT !.lastSettings = KawarpKnobs(settings),
                                    !.lastMultipliers = m]
        ELSE S.kawarps[loc]]]

(***************************************************************************)
(* audioAnalysis.ts (start / stop) and the controller's audio callbacks    *)
(***************************************************************************)
NoClosure == [audioResponsive |-> FALSE, audioSpeedMultiplier |-> 0, audioScaleBoost |-> 0,
              audioBeatThreshold |-> 0]

\* What the frame callback's closure keeps of the settings object it was given.
Closure(settings) ==
  [audioResponsive |-> settings.audioResponsive,
   audioSpeedMultiplier |-> settings.audioSpeedMultiplier,
   audioScaleBoost |-> settings.audioScaleBoost,
   audioBeatThreshold |-> settings.audioBeatThreshold]

\* state.dataArray has analyser.frequencyBinCount entries (512 in the program)
BufferLength == 3

\* No frame callback has run yet.
NoTick ==
  [timestamp |-> 0, previous |-> 0, due |-> FALSE, volume |-> 0, threshold |-> 0,
   peak |-> 0, read |-> 0, isBeat |-> FALSE, settings |-> NoClosure,
   delivered |-> <<>>, stoppedInside |-> FALSE]

Abs(x) == IF x < 0 THEN -x ELSE x

\* analyzeAudioFrame, line 139; volume in hundredths (MIN_VOLUME_FOR_ANALYSIS is 1)
volumeMultiplier(currentVolume) ==
  IF currentVolume > 1 THEN 100 \div currentVolume ELSE 1

\* amplitude (in 1/128) > threshold (in thousandths)
Exceeds(amplitude, threshold) == amplitude * 1000 > threshold * 128

\* The variant of the scan that leaves the loop at the first sample above the
\* running peak, whatever the threshold.
RECURSIVE analyzeAudioFrame_scan_exitOnRise(_, _, _, _, _)
analyzeAudioFrame_scan_exitOnRise(data, multiplier, threshold, i, peak) ==
  IF i > Len(data) THEN [peak |-> peak, read |-> Len(data)]
  ELSE LET amplitude == Abs(data[i] - 128) * multiplier IN
       IF amplitude > peak
       THEN [peak |-> amplitude, read |-> i]
       ELSE analyzeAudioFrame_scan_exitOnRise(data, multiplier, threshold, i + 1, peak)

\* analyzeAudioFrame, lines 141-152: the loop from (1-based) index i on, with
\* the peak so far; `read' is the number of samples looked at.
RECURSIVE analyzeAudioFrame_scan(_, _, _, _, _)
analyzeAudioFrame_scan(data, multiplier, threshold, i, peak) ==
  IF i > Len(data) THEN [peak |-> peak, read |-> Len(data)]
  ELSE LET amplitude == Abs(data[i] - 128) * multiplier IN
       IF amplitude > peak
       THEN IF Exceeds(amplitude, threshold)
            THEN [peak |-> amplitude, read |-> i]
            ELSE analyzeAudioFrame_scan(data, multiplier, threshold, i + 1, amplitude)
       ELSE analyzeAudioFrame_scan(data, multiplier, threshold, i + 1, peak)

\* The variant that looks at the beat only.
analyzeAudioFrame_multipliers_beatOnly(settings, isBeat) ==
  [speedMultiplier |-> IF isBeat THEN settings.audioSpeedMultiplier ELSE 1,
   scaleMultiplier |-> IF isBeat THEN 100 + settings.audioScaleBoost ELSE 100]

\* analyzeAudioFrame, lines 156-159
analyzeAudioFrame_multipliers(settings, isBeat) ==
  [speedMultiplier |->
     IF settings.audioResponsive /\ isBeat THEN settings.audioSpeedMultiplier ELSE 1,
   scaleMultiplier |->
     IF settings.audioResponsive /\ isBeat THEN 100 + settings.audioScaleBoost ELSE 100]

startAudioAnalysis(S, settings) ==
  [S EXCEPT !.audio = [rafId |-> TRUE, settings |-> Closure(settings)]]

stopAudioAnalysis(S) ==
  [S EXCEPT !.audio = [rafId |-> FALSE, settings |-> NoClosure]]

handleBeatDetected(S) ==
  LET S1 == [S EXCEPT !.dmRef = "reusable"] IN
  IF S1.gs.shaderType = "kawarp"
  THEN updateKawarpSpeed(S1, MultOf(S1, S1.dmRef))
  ELSE updateShaderSettings(S1, MultOf(S1, S1.dmRef))

handleAudioResponsiveToggle(S, t) ==
  LET fn == "handleAudioResponsiveToggle" IN
  IF S.gs.audioResponsive /\ S.audioInit
  THEN Log(startAudioAnalysis(S, S.gs), t, fn, <<"startAudioAnalysis", "">>)
  ELSE LET S1 == [S EXCEPT !.dmRef = "default"] IN
       IF S1.gs.shaderType = "kawarp"
       THEN Log(updateKawarpSpeed(S1, DEFAULT_DYNAMIC_MULTIPLIERS),
                t, fn, <<"updateKawarpSpeed", "all">>)
       ELSE Log(updateShaderSettings(S1, DEFAULT_DYNAMIC_MULTIPLIERS),
                t, fn, <<"updateShaderSettings", "all">>)

(***************************************************************************)
(* The async functions.  F(S, t, ...) is the call of F in task t: it runs  *)
(* F's synchronous prefix and either pushes F's suspended frame, calls     *)
(* another async function (Call) or hands F's result to the caller         *)
(* (Return).  F_pc(S, t) continues F, whose frame is on top of t's stack,  *)
(* from the await labelled pc.                                             *)
(***************************************************************************)
Call(S, fn, a) == [S EXCEPT !.ctl = [op |-> "call", fn |-> fn, a |-> a]]

Return(S, t, val) == [S EXCEPT !.ctl = [op |-> "return", val |-> val]]

\* shaderManager.createShader up to `await waitForTargetReady`
createShader(S, t, colors, mref, loc) ==
  IF colors = 0 THEN Return(S, t, "false")
  ELSE LET fr == [Frame("createShader", "wait") EXCEPT
                    !.loc = loc, !.colors = colors, !.mref = mref]
           S1 == Push(S, t, fr)
       IN IF S.shaders[loc].mount
          THEN Log(destroyShader(S1, loc), t, "createShader", <<"destroyShader", loc>>)
          ELSE S1

\* the ShaderMount allocated after the wait, in the record the call captured
AllocMount(S, fr) ==
  IF fr.oid = 0
  THEN [S EXCEPT
         !.leakedMounts[fr.loc].overwritten = @ + (IF S.shaders[fr.loc].mount THEN 1 ELSE 0),
         !.shaders[fr.loc] = [mount |-> TRUE, colors |-> fr.colors,
                              lastMultipliers |-> MultOf(S, fr.mref)],
         !.lastKnownColors = fr.colors]
  ELSE [S EXCEPT !.leakedMounts[fr.loc].orphaned = @ + 1,
                 !.lastKnownColors = fr.colors]

\* shaderManager.createShader after the wait
createShader_delay(S, t) ==
  LET fr == Top(S, t) IN
  IF S.dom[fr.loc] = "absent" THEN Return(Pop(S, t), t, "false")
  ELSE Return(Pop(Log(AllocMount(S, fr), t, "createShader", <<"ShaderMount", fr.loc>>), t),
              t, "true")

\* kawarpManager.createKawarp up to `await waitForTargetReady`
createKawarp(S, t, settings, mref, loc) ==
  LET fr == [Frame("createKawarp", "wait") EXCEPT
               !.loc = loc, !.mref = mref, !.l = KawarpKnobs(settings)]
      S1 == Push(S, t, fr)
  IN IF S.kawarps[loc].instance
     THEN Log(destroyKawarp(S1, loc), t, "createKawarp", <<"destroyKawarp", loc>>)
     ELSE S1

\* the Kawarp instance allocated after the wait, in the record the call captured
AllocInstance(S, fr) ==
  IF fr.oid = 0
  THEN [S EXCEPT
         !.leakedInstances[fr.loc].overwritten = @ + (IF S.kawarps[fr.loc].instance THEN 1 ELSE 0),
         !.kawarps[fr.loc] = [instance |-> TRUE,
                              currentImageUrl |-> S.kawarps[fr.loc].currentImageUrl,
                              lastSettings |-> fr.l,
                              lastMultipliers |-> MultOf(S, fr.mref)]]
  ELSE [S EXCEPT !.leakedInstances[fr.loc].orphaned = @ + 1,
                 !.orphInst[fr.oid] = TRUE]

\* kawarpManager.createKawarp after the wait, up to `await loadImage`
createKawarp_delay(S, t) ==
  LET fr == Top(S, t) IN
  IF S.dom[fr.loc] = "absent" THEN Return(Pop(S, t), t, "false")
  ELSE LET S1 == Log(AllocInstance(S, fr), t, "createKawarp", <<"Kawarp", fr.loc>>) IN
       IF S.art = 0 THEN Return(Pop(S1, t), t, "true")
       ELSE SetTop(S1, t, [fr EXCEPT !.pc = "load", !.colors = S.art])

\* kawarpManager.createKawarp after `await loadImage`: state.instance.start()
\* throws when the captured record's instance is null by now
createKawarp_load(S, t, loaded) ==
  LET fr == Top(S, t)
      inst == IF fr.oid = 0 THEN S.kawarps[fr.loc].instance ELSE S.orphInst[fr.oid]
      S1 == IF loaded /\ fr.oid = 0
            THEN [S EXCEPT !.kawarps[fr.loc].currentImageUrl = fr.colors]
            ELSE S
  IN Return(Pop(S1, t), t, IF inst THEN "true" ELSE "throw")

\* kawarpManager.updateKawarpImage up to `await loadImage`
\* (isTransitioning and the pending slot are left to SpecKawarp)
updateKawarpImage(S, t, loc) ==
  IF ~S.kawarps[loc].instance \/ S.art = 0 \/ S.art = S.kawarps[loc].currentImageUrl
  THEN Return(S, t, "void")
  ELSE Push(S, t, [Frame("updateKawarpImage", "load") EXCEPT
                     !.loc = loc, !.colors = S.art])

updateKawarpImage_load(S, t, loaded) ==
  LET fr == Top(S, t)
      S1 == IF loaded /\ fr.oid = 0
            THEN [S EXCEPT !.kawarps[fr.loc].currentImageUrl = fr.colors]
            ELSE S
  IN Return(Pop(S1, t), t, "void")

\* the album keys whose stored record has colorsManuallyModified = true
Manual(all) == {all[i].key : i \in {j \in 1..Len(all) : all[j].colorsManuallyModified}}

\* storage.generateAlbumKey: the URL without its query string
generateAlbumKey(albumArtUrl) == albumArtUrl.album

\* allAlbumSettings[albumKey]: the position of the entry, 0 = undefined
IndexOf(all, albumKey) ==
  IF \E i \in 1..Len(all) : all[i].key = albumKey
  THEN CHOOSE i \in 1..Len(all) : all[i].key = albumKey
  ELSE 0

\* A debounce that arms a timer only when none is pending: the pending
\* timer, with the values of the earlier call, survives a newer call.
debouncedSaveAlbumColors_keepsPending(timer, req, albumUrl, colors, colorsManuallyModified) ==
  IF timer # NoTimer THEN timer
  ELSE [req |-> req, deadline |-> now * TICK_MS + DEBOUNCE_MS, albumUrl |-> albumUrl,
        colors |-> colors, colorsManuallyModified |-> colorsManuallyModified]

\* gradientController.debouncedSaveAlbumColors: clearTimeout of the pending
\* timer, whatever it was armed for, and a new timer whose callback captures
\* this call's arguments.  The result is the new albumSaveDebounceTimer.
debouncedSaveAlbumColors(timer, req, albumUrl, colors, colorsManuallyModified) ==
  [req |-> req, deadline |-> now * TICK_MS + DEBOUNCE_MS, albumUrl |-> albumUrl,
   colors |-> colors, colorsManuallyModified |-> colorsManuallyModified]

\* the URL of an artwork
UrlOf(img) == [album |-> img, query |-> 0]

\* A colour list that no artwork extracts to: colours picked by the user.
UserPalette == MaxImages + 1

\* A handler calls debouncedSaveAlbumColors.  The request is logged with the
\* kind of the handler and whether it is inside a re-extraction that skips
\* the saved colours.
RequestSave(S, t, albumUrl, colors, colorsManuallyModified) ==
  LET skipping == \E i \in 1..Len(S.stacks[t]) :
                     /\ S.stacks[t][i].fn = "extractAndUpdateColors"
                     /\ S.stacks[t][i].l.skipSavedColors
  IN [S EXCEPT
        !.albumSaveDebounceTimer =
           debouncedSaveAlbumColors(@, Len(S.reqLog) + 1, albumUrl, colors,
                                    colorsManuallyModified),
        !.reqLog = Append(@, [albumUrl |-> albumUrl, colors |-> colors,
                              colorsManuallyModified |-> colorsManuallyModified,
                              at |-> now * TICK_MS]),
        !.reqBy = Append(@, [kind |-> S.kind[t], skipSavedColors |-> skipping])]

\* gradientController.updateGradientColors, lines 145-148
updateGradientColors_afterCreate(S, t) ==
  LET fr == Top(S, t)
      S1 == IF S.gs.rememberAlbumSettings /\ S.currentAlbumArtUrl # 0 /\ fr.loc = "player"
            THEN RequestSave(S, t, UrlOf(S.currentAlbumArtUrl), fr.colors, TRUE)
            ELSE S
  IN Return(Pop(S1, t), t, "void")

\* gradientController.updateGradientColors
updateGradientColors(S, t, colors, pageType) ==
  LET fn == "updateGradientColors" IN
  IF colors = 0
  THEN Return(Log(destroyShader(S, pageType), t, fn, <<"destroyShader", pageType>>), t, "void")
  ELSE IF S.gs.shaderType = "kawarp" THEN Return(S, t, "void")
  ELSE LET S1 == Push(S, t, [Frame(fn, "afterCreate") EXCEPT !.loc = pageType,
                                                              !.colors = colors]) IN
       IF hasShader(S, pageType)
       THEN updateGradientColors_afterCreate(
              Log(updateShaderColors(S1, colors, MultOf(S1, S1.dmRef), pageType),
                  t, fn, <<"updateShaderColors", pageType>>), t)
       ELSE Call(Log(S1, t, fn, <<"createShader", pageType>>), "createShader",
                 [colors |-> colors, mref |-> S1.dmRef, loc |-> pageType])

\* The palette extracted from an artwork (the extraction itself is
\* colorExtraction.ts): one palette per artwork.
Palette(img) == img

\* gradientController.extractAndUpdateColors up to `await extractColorsFromAlbumArt`
extractAndUpdateColors(S, t, forceUpdate, skipSavedColors) ==
  Push(S, t, [Frame("extractAndUpdateColors", "extract") EXCEPT
                !.l = [forceUpdate |-> forceUpdate, skipSavedColors |-> skipSavedColors]])

extractAndUpdateColors_end(S, t) == Return(Pop(S, t), t, "void")

extractAndUpdateColors_afterHomepage(S, t) ==
  IF hasShader(S, "search")
  THEN Call(SetPc(S, t, "afterSearch"), "updateGradientColors",
            [colors |-> Top(S, t).colors, pageType |-> "search"])
  ELSE extractAndUpdateColors_end(S, t)

extractAndUpdateColors_afterPlayer(S, t) ==
  IF S.gs.showOnBrowsePages
  THEN IF hasShader(S, "homepage")
       THEN Call(SetPc(S, t, "afterHomepage"), "updateGradientColors",
                 [colors |-> Top(S, t).colors, pageType |-> "homepage"])
       ELSE extractAndUpdateColors_afterHomepage(S, t)
  ELSE extractAndUpdateColors_end(S, t)

\* lines 207-218: apply the colours chosen
extractAndUpdateColors_apply(S, t, colorsToUse, shouldUpdate) ==
  IF ~shouldUpdate \/ colorsToUse = 0 THEN extractAndUpdateColors_end(S, t)
  ELSE Call(SetTop(S, t, [Top(S, t) EXCEPT !.pc = "afterPlayer", !.colors = colorsToUse]),
            "updateGradientColors", [colors |-> colorsToUse, pageType |-> "player"])

\* after the extraction: result is null when no artwork was found; with
\* rememberAlbumSettings on the call suspends at `await storage.loadAlbumSettings`
extractAndUpdateColors_extract(S, t) ==
  LET fr == Top(S, t)
      isNewImage == S.art # S.lastImageSrc
      S1 == [S EXCEPT !.lastImageSrc = S.art, !.currentAlbumArtUrl = S.art]
      colorsToUse == Palette(S.art)
      shouldUpdate == isNewImage \/ fr.l.forceUpdate
  IN IF S.art = 0 THEN extractAndUpdateColors_end(S, t)
     ELSE IF S1.gs.rememberAlbumSettings /\ ~fr.l.skipSavedColors
     THEN SetTop(S1, t, [fr EXCEPT !.pc = "load", !.colors = colorsToUse,
                                   !.l = [forceUpdate |-> fr.l.forceUpdate,
                                          skipSavedColors |-> fr.l.skipSavedColors,
                                          isNewImage |-> isNewImage,
                                          imageSrc |-> S.art]])
     ELSE extractAndUpdateColors_apply(S1, t, colorsToUse, shouldUpdate)

\* lines 186-189: shouldUseSavedColors
shouldUseSavedColors_manualOnly(savedAlbumData, boostDullColors) ==
  savedAlbumData.colors # 0 /\ savedAlbumData.colorsManuallyModified

shouldUseSavedColors(savedAlbumData, boostDullColors) ==
  /\ savedAlbumData.colors # 0
  /\ (savedAlbumData.colorsManuallyModified \/ ~boostDullColors)

\* lines 179-205, from the result of loadAlbumSettings (which has stamped the
\* record it found).  The choice made for a saved record is logged.
extractAndUpdateColors_load(S, t) ==
  LET fr == Top(S, t)
      k == IndexOf(S.store, generateAlbumKey(UrlOf(fr.l.imageSrc)))
      savedAlbumData == S.store[k]
      S1 == IF k # 0 THEN [S EXCEPT !.store[k].lastAccessed = now * TICK_MS] ELSE S
      use == k # 0 /\ shouldUseSavedColors(savedAlbumData, S.gs.boostDullColors)
      colorsToUse == IF use THEN savedAlbumData.colors ELSE fr.colors
      shouldUpdate == \/ fr.l.isNewImage
                      \/ fr.l.forceUpdate
                      \/ (use /\ S.lastKnownColors # colorsToUse)
      S2 == IF k = 0 /\ fr.l.isNewImage
            THEN RequestSave(S1, t, UrlOf(fr.l.imageSrc), colorsToUse, FALSE)
            ELSE S1
      S3 == IF k # 0
            THEN [S2 EXCEPT !.useLog =
                    Append(@, [saved |-> [colors |-> savedAlbumData.colors,
                                          colorsManuallyModified |->
                                            savedAlbumData.colorsManuallyModified],
                               boostDullColors |-> S.gs.boostDullColors,
                               extracted |-> fr.colors,
                               colorsToUse |-> colorsToUse,
                               applied |-> shouldUpdate /\ colorsToUse # 0])]
            ELSE S2
  IN extractAndUpdateColors_apply(S3, t, colorsToUse, shouldUpdate)

getCurrentPageType(S) ==
  IF S.dom["player"] # "absent" THEN "player"
  ELSE IF S.dom["search"] # "absent" THEN "search"
  ELSE IF S.dom["homepage"] # "absent" THEN "homepage"
  ELSE "other"

\* gradientController.destroyBrowsePageShaders
destroyBrowsePageShaders(S, t) ==
  LET fn == "destroyBrowsePageShaders"
      S1 == IF hasShader(S, "homepage")
            THEN Log(destroyShader(S, "homepage"), t, fn, <<"destroyShader", "homepage">>)
            ELSE S
      S2 == IF hasShader(S1, "search")
            THEN Log(destroyShader(S1, "search"), t, fn, <<"destroyShader", "search">>)
            ELSE S1
      S3 == IF hasKawarp(S2, "homepage")
            THEN Log(destroyKawarp(S2, "homepage"), t, fn, <<"destroyKawarp", "homepage">>)
            ELSE S2
  IN IF hasKawarp(S3, "search")
     THEN Log(destroyKawarp(S3, "search"), t, fn, <<"destroyKawarp", "search">>)
     ELSE S3

(***************************************************************************)
(* gradientController.checkAndUpdateGradient.  Its frame keeps the locals  *)
(* computed before the first await: pageType, isKawarp and the three       *)
(* has...Effect flags; cc is currentColors of the mesh browse branch.      *)
(***************************************************************************)
CAU == "checkAndUpdateGradient"

checkAndUpdateGradient_end(S, t) == Return(Pop(S, t), t, "void")

\* player page, kawarp: `if (!hasSearchEffect) await createKawarp(..., "search-page")`
checkAndUpdateGradient_k4(S, t) ==
  IF ~Top(S, t).l.hasSearchEffect
  THEN Call(Log(SetPc(S, t, "k5"), t, CAU, <<"createKawarp", "search">>), "createKawarp",
            [settings |-> S.gs, mref |-> S.dmRef, loc |-> "search"])
  ELSE checkAndUpdateGradient_end(S, t)

\* player page: the browse-page block, lines 275-298
checkAndUpdateGradient_browse(S, t) ==
  LET l == Top(S, t).l IN
  IF S.gs.showOnBrowsePages
  THEN IF l.isKawarp
       THEN IF ~l.hasHomepageEffect
            THEN Call(Log(SetPc(S, t, "k4"), t, CAU, <<"createKawarp", "homepage">>),
                      "createKawarp",
                      [settings |-> S.gs, mref |-> S.dmRef, loc |-> "homepage"])
            ELSE checkAndUpdateGradient_k4(S, t)
       ELSE LET cc == S.lastKnownColors
                S1 == SetTop(S, t, [Top(S, t) EXCEPT !.colors = cc]) IN
            IF cc # 0 /\ ~l.hasHomepageEffect
            THEN Call(SetPc(S1, t, "m2"), "updateGradientColors",
                      [colors |-> cc, pageType |-> "homepage"])
            ELSE IF cc # 0 /\ ~l.hasSearchEffect
            THEN Call(SetPc(S1, t, "m3"), "updateGradientColors",
                      [colors |-> cc, pageType |-> "search"])
            ELSE checkAndUpdateGradient_end(S1, t)
  ELSE checkAndUpdateGradient_end(destroyBrowsePageShaders(S, t), t)

\* player page, mesh: `if (... && !hasSearchEffect) await updateGradientColors(..., "search")`
checkAndUpdateGradient_m2(S, t) ==
  LET fr == Top(S, t) IN
  IF fr.colors # 0 /\ ~fr.l.hasSearchEffect
  THEN Call(SetPc(S, t, "m3"), "updateGradientColors",
            [colors |-> fr.colors, pageType |-> "search"])
  ELSE checkAndUpdateGradient_end(S, t)

\* player page, kawarp: `if (hasSearchEffect) await updateKawarpImage("search")`
checkAndUpdateGradient_k2(S, t) ==
  IF Top(S, t).l.hasSearchEffect
  THEN Call(Log(SetPc(S, t, "k3"), t, CAU, <<"updateKawarpImage", "search">>),
            "updateKawarpImage", [loc |-> "search"])
  ELSE checkAndUpdateGradient_browse(S, t)

\* player page, kawarp: after the player surface, lines 262-269
checkAndUpdateGradient_k1(S, t) ==
  IF S.gs.showOnBrowsePages
  THEN IF Top(S, t).l.hasHomepageEffect
       THEN Call(Log(SetPc(S, t, "k2"), t, CAU, <<"updateKawarpImage", "homepage">>),
                 "updateKawarpImage", [loc |-> "homepage"])
       ELSE checkAndUpdateGradient_k2(S, t)
  ELSE checkAndUpdateGradient_browse(S, t)

\* browse page: lines 326-333
checkAndUpdateGradient_b1(S, t) ==
  LET l == Top(S, t).l IN
  IF l.hasPlayerEffect
  THEN IF l.isKawarp
       THEN checkAndUpdateGradient_end(
              Log(destroyKawarp(S, "player"), t, CAU, <<"destroyKawarp", "player">>), t)
       ELSE checkAndUpdateGradient_end(
              Log(destroyShader(S, "player"), t, CAU, <<"destroyShader", "player">>), t)
  ELSE checkAndUpdateGradient_end(S, t)

checkAndUpdateGradient(S, t) ==
  IF ~S.gs.enabled THEN Return(S, t, "void")
  ELSE
  LET pageType == getCurrentPageType(S)
      isKawarp == S.gs.shaderType = "kawarp"
      l == [pageType |-> pageType, isKawarp |-> isKawarp,
            hasPlayerEffect |-> IF isKawarp THEN hasKawarp(S, "player") ELSE hasShader(S, "player"),
            hasHomepageEffect |-> IF isKawarp THEN hasKawarp(S, "homepage") ELSE hasShader(S, "homepage"),
            hasSearchEffect |-> IF isKawarp THEN hasKawarp(S, "search") ELSE hasShader(S, "search")]
      S1 == Push(S, t, [Frame(CAU, "start") EXCEPT !.l = l])
  IN
  IF pageType = "player"
  THEN IF isKawarp
       THEN IF ~l.hasPlayerEffect
            THEN Call(Log(SetPc(S1, t, "k1"), t, CAU, <<"createKawarp", "player">>),
                      "createKawarp",
                      [settings |-> S1.gs, mref |-> S1.dmRef, loc |-> "player"])
            ELSE Call(Log(SetPc(S1, t, "k1"), t, CAU, <<"updateKawarpImage", "player">>),
                      "updateKawarpImage", [loc |-> "player"])
       ELSE Call(Log(SetPc(S1, t, "m1"), t, CAU, <<"extractAndUpdateColors", "auto">>),
                 "extractAndUpdateColors",
                 [forceUpdate |-> FALSE, skipSavedColors |-> FALSE])
  ELSE IF pageType \in {"homepage", "search"}
  THEN IF S1.gs.showOnBrowsePages
       THEN LET hasTargetEffect ==
                  IF pageType = "homepage" THEN l.hasHomepageEffect ELSE l.hasSearchEffect
            IN IF ~hasTargetEffect
               THEN IF isKawarp
                    THEN Call(Log(SetPc(S1, t, "b1"), t, CAU, <<"createKawarp", pageType>>),
                              "createKawarp",
                              [settings |-> S1.gs, mref |-> S1.dmRef, loc |-> pageType])
                    ELSE IF S1.lastKnownColors # 0
                    THEN Call(SetPc(S1, t, "b1"), "updateGradientColors",
                              [colors |-> S1.lastKnownColors, pageType |-> pageType])
                    ELSE checkAndUpdateGradient_b1(S1, t)
               ELSE checkAndUpdateGradient_b1(S1, t)
       ELSE checkAndUpdateGradient_b1(destroyBrowsePageShaders(S1, t), t)
  ELSE checkAndUpdateGradient_end(
         Log(Log(destroyKawarpAll(destroyShaderAll(S1)),
                 t, CAU, <<"destroyShader", "all">>),
             t, CAU, <<"destroyKawarp", "all">>), t)

(***************************************************************************)
(* gradientController.updateGradientSettings.  Its frame keeps the new     *)
(* snapshot and the deltas computed before the snapshot replaced the old.  *)
(***************************************************************************)
UGS == "updateGradientSettings"

updateGradientSettings_end(S, t) == Return(Pop(S, t), t, "void")

\* lines 370-374, after `await checkAndUpdateGradient()` of the enable branch
updateGradientSettings_e1(S, t) ==
  LET settings == Top(S, t).l.settings IN
  IF settings.audioResponsive
  THEN updateGradientSettings_end(
         Log(startAudioAnalysis(S, settings), t, UGS, <<"startAudioAnalysis", "">>), t)
  ELSE updateGradientSettings_end(S, t)

\* A push that first destroys the surfaces of the snapshot's variant.
updateGradientSettings_s2_recreate(S, t) ==
  LET settings == Top(S, t).l.settings IN
  updateGradientSettings_end(
    IF settings.shaderType = "kawarp" THEN destroyKawarpAll(S) ELSE destroyShaderAll(S), t)

\* lines 406-410: push the settings to the surfaces of the snapshot's variant
updateGradientSettings_s2(S, t) ==
  LET settings == Top(S, t).l.settings IN
  IF settings.shaderType = "kawarp" /\ hasKawarpAny(S)
  THEN updateGradientSettings_end(
         Log(updateKawarpSettings(S, settings, MultOf(S, S.dmRef)),
             t, UGS, <<"updateKawarpSettings", "all">>), t)
  ELSE IF settings.shaderType = "mesh" /\ hasShaderAny(S)
  THEN updateGradientSettings_end(
         Log(updateShaderSettings(S, MultOf(S, S.dmRef)),
             t, UGS, <<"updateShaderSettings", "all">>), t)
  ELSE updateGradientSettings_end(S, t)

\* lines 400-404: the boost re-extraction
updateGradientSettings_s1(S, t) ==
  LET l == Top(S, t).l IN
  IF l.boostSettingsChanged /\ l.settings.shaderType = "mesh"
  THEN Call(Log(SetPc(S, t, "s2"), t, UGS, <<"extractAndUpdateColors", "forced">>),
            "extractAndUpdateColors", [forceUpdate |-> TRUE, skipSavedColors |-> TRUE])
  ELSE updateGradientSettings_s2(S, t)

\* A variant branch that lacks the `return` of line 389: the call goes on
\* with the remaining deltas once the reconciliation has returned.
updateGradientSettings_variant_noReturn(S, t, was, settings) ==
  LET S1 == IF was.shaderType = "mesh"
            THEN Log(destroyShaderAll(S), t, UGS, <<"destroyShader", "all">>)
            ELSE Log(destroyKawarpAll(S), t, UGS, <<"destroyKawarp", "all">>)
  IN Call(Log(SetPc(S1, t, "s1"), t, UGS, <<CAU, settings.shaderType>>), CAU, <<>>)

\* lines 381-390: the variant changed
updateGradientSettings_variant(S, t, was, settings) ==
  LET S1 == IF was.shaderType = "mesh"
            THEN Log(destroyShaderAll(S), t, UGS, <<"destroyShader", "all">>)
            ELSE Log(destroyKawarpAll(S), t, UGS, <<"destroyKawarp", "all">>)
  IN Call(Log(SetPc(S1, t, "v1"), t, UGS, <<CAU, settings.shaderType>>), CAU, <<>>)

updateGradientSettings(S, t, settings) ==
  LET was == S.gs
      audioSettingsChanged ==
        \/ was.audioSpeedMultiplier # settings.audioSpeedMultiplier
        \/ was.audioScaleBoost # settings.audioScaleBoost
        \/ was.audioBeatThreshold # settings.audioBeatThreshold
      boostSettingsChanged == was.boostDullColors # settings.boostDullColors
      shaderTypeChanged == was.shaderType # settings.shaderType
      S0 == Push([S EXCEPT !.gs = settings], t,
                 [Frame(UGS, "start") EXCEPT
                    !.l = [settings |-> settings,
                           boostSettingsChanged |-> boostSettingsChanged]])
  IN
  IF was.enabled # settings.enabled
  THEN IF ~settings.enabled
       THEN updateGradientSettings_end(
              Log(stopAudioAnalysis(
                    Log(Log(destroyKawarpAll(destroyShaderAll(S0)),
                            t, UGS, <<"destroyShader", "all">>),
                        t, UGS, <<"destroyKawarp", "all">>)),
                  t, UGS, <<"stopAudioAnalysis", "">>), t)
       ELSE Call(Log(SetPc(S0, t, "e1"), t, UGS, <<CAU, settings.shaderType>>), CAU, <<>>)
  ELSE IF ~settings.enabled THEN updateGradientSettings_end(S0, t)
  ELSE IF shaderTypeChanged THEN updateGradientSettings_variant(S0, t, was, settings)
  ELSE LET S1 == IF was.audioResponsive # settings.audioResponsive \/ audioSettingsChanged
                 THEN handleAudioResponsiveToggle(S0, t)
                 ELSE S0
       IN IF was.showOnBrowsePages # settings.showOnBrowsePages
          THEN Call(Log(SetPc(S1, t, "s1"), t, UGS, <<CAU, settings.shaderType>>), CAU, <<>>)
          ELSE updateGradientSettings_s1(S1, t)

(***************************************************************************)
(* An async function hands its result to the frame that awaits it; a       *)
(* rejection unwinds the awaiting frames (none of them catches).           *)
(* navigationManager's debouncedUpdate clears isProcessing in .finally.    *)
(***************************************************************************)
Resume(S, t, val) ==
  IF S.stacks[t] = <<>>
  THEN [S EXCEPT !.status[t] = IF val = "throw" THEN "rejected" ELSE "done"]
  ELSE
  LET fr == Top(S, t) IN
  IF fr.fn = "debouncedUpdate"
  THEN Return([Pop(S, t) EXCEPT !.isProcessing = FALSE], t, val)
  ELSE IF val = "throw" THEN Return(Pop(S, t), t, "throw")
  ELSE IF fr.fn = "updateGradientColors" THEN updateGradientColors_afterCreate(S, t)
  ELSE IF fr.fn = "extractAndUpdateColors"
  THEN IF fr.pc = "afterPlayer" THEN extractAndUpdateColors_afterPlayer(S, t)
       ELSE IF fr.pc = "afterHomepage" THEN extractAndUpdateColors_afterHomepage(S, t)
       ELSE extractAndUpdateColors_end(S, t)
  ELSE IF fr.fn = CAU
  THEN IF fr.pc = "k1" THEN checkAndUpdateGradient_k1(S, t)
       ELSE IF fr.pc = "k2" THEN checkAndUpdateGradient_k2(S, t)
       ELSE IF fr.pc \in {"k3", "m1"} THEN checkAndUpdateGradient_browse(S, t)
       ELSE IF fr.pc = "k4" THEN checkAndUpdateGradient_k4(S, t)
       ELSE IF fr.pc = "m2" THEN checkAndUpdateGradient_m2(S, t)
       ELSE IF fr.pc = "b1" THEN checkAndUpdateGradient_b1(S, t)
       ELSE checkAndUpdateGradient_end(S, t)
  ELSE IF fr.fn = UGS
  THEN IF fr.pc = "e1" THEN updateGradientSettings_e1(S, t)
       ELSE IF fr.pc = "s1" THEN updateGradientSettings_s1(S, t)
       ELSE IF fr.pc = "s2" THEN updateGradientSettings_s2(S, t)
       ELSE updateGradientSettings_end(S, t)
  ELSE Return(Pop(S, t), t, val)

\* One move of task t: enter the called function, or continue the frame
\* that awaited the result.
Dispatch(S, t) ==
  LET c == S.ctl
      S0 == [S EXCEPT !.ctl = Suspended]
  IN IF c.op = "return" THEN Resume(S0, t, c.val)
     ELSE IF c.fn = "createShader" THEN createShader(S0, t, c.a.colors, c.a.mref, c.a.loc)
     ELSE IF c.fn = "createKawarp" THEN createKawarp(S0, t, c.a.settings, c.a.mref, c.a.loc)
     ELSE IF c.fn = "updateKawarpImage" THEN updateKawarpImage(S0, t, c.a.loc)
     ELSE IF c.fn = "updateGradientColors"
     THEN updateGradientColors(S0, t, c.a.colors, c.a.pageType)
     ELSE IF c.fn = "extractAndUpdateColors"
     THEN extractAndUpdateColors(S0, t, c.a.forceUpdate, c.a.skipSavedColors)
     ELSE checkAndUpdateGradient(S0, t)

\* Task t runs until it is suspended at an await or has finished.
RECURSIVE RunToSuspension(_, _)
RunToSuspension(S, t) ==
  IF S.ctl.op = "suspended" THEN S ELSE RunToSuspension(Dispatch(S, t), t)

(***************************************************************************)
(* Spec: the actions.                                                      *)
(***************************************************************************)
\* The page configurations the run moves between: which target elements
\* exist and which have children.
Pages ==
  { [player |-> "absent", homepage |-> "absent", search |-> "absent"],
    [player |-> "empty",  homepage |-> "absent", search |-> "absent"],
    [player |-> "ready",  homepage |-> "absent", search |-> "absent"],
    [player |-> "absent", homepage |-> "ready",  search |-> "absent"],
    [player |-> "absent", homepage |-> "absent", search |-> "ready"],
    [player |-> "ready",  homepage |-> "ready",  search |-> "absent"] }

\* Handler invocations are numbered in arrival order.
CanStart(t) ==
  /\ status[t] = "idle"
  /\ \A u \in Tasks : u < t => status[u] # "idle"

Running(t, fn, pc) ==
  /\ status[t] = "running"
  /\ stacks[t] # <<>>
  /\ Top(St, t).fn = fn
  /\ Top(St, t).pc = pc

\* What a settings snapshot changes, in the order updateGradientSettings tests it.
Delta(was, settings) ==
  IF was.enabled /\ ~settings.enabled THEN "disable"
  ELSE IF ~was.enabled /\ settings.enabled THEN "enable"
  ELSE IF ~settings.enabled THEN "disabled"
  ELSE IF was.shaderType # settings.shaderType THEN "variant"
  ELSE "other"

TaskStep(t, S) ==
  /\ LET R == RunToSuspension(S, t)
     IN Commit(R) /\ actor' = IF R.didAct THEN t ELSE 0
  /\ UNCHANGED <<audioInit, navTimer, dom, art, envLeft, idleVars>>

EnvStep ==
  /\ actor' = 0
  /\ stepActs' = <<>>
  /\ UNCHANGED <<kind, delta, acted, saveVars, extVars>>

\* messageHandler: an updateGradientSettings message
SettingsMessage(t, settings) ==
  /\ CanStart(t)
  /\ settings \in PopupSnapshots(gradientSettings)
  /\ kind' = [kind EXCEPT ![t] = "settings"]
  /\ delta' = [delta EXCEPT ![t] = Delta(gradientSettings, settings)]
  /\ TaskStep(t, updateGradientSettings([St EXCEPT !.status[t] = "running",
                                               !.kind[t] = "settings"], t, settings))

\* messageHandler: an updateColors message
ColorsMessage(t, colors) ==
  /\ CanStart(t)
  /\ kind' = [kind EXCEPT ![t] = "colors"]
  /\ UNCHANGED delta
  /\ TaskStep(t, updateGradientColors([St EXCEPT !.status[t] = "running",
                                             !.kind[t] = "colors"], t, colors, "player"))

\* navigationManager: the 300 ms timer of debouncedUpdate fires
DebounceFire(t) ==
  /\ CanStart(t)
  /\ navTimer
  /\ kind' = [kind EXCEPT ![t] = "nav"]
  /\ UNCHANGED delta
  /\ LET S == RunToSuspension(checkAndUpdateGradient(
                Push([St EXCEPT !.status[t] = "running", !.kind[t] = "nav",
                                !.isProcessing = TRUE],
                     t, Frame("debouncedUpdate", "run")), t), t)
     IN Commit(S) /\ actor' = IF S.didAct THEN t ELSE 0
  /\ navTimer' = FALSE
  /\ UNCHANGED <<audioInit, dom, art, envLeft, idleVars>>

\* waitForTargetReady sees the target with children and starts its delay
TargetReady(t) ==
  /\ \E fn \in {"createShader", "createKawarp"} : Running(t, fn, "wait")
  /\ dom[Top(St, t).loc] = "ready"
  /\ UNCHANGED <<kind, delta>>
  /\ TaskStep(t, SetPc(St, t, "delay"))

\* kawarpManager.waitForTargetReady gives up after maxWaitMs
WaitTimeout(t) ==
  /\ Running(t, "createKawarp", "wait")
  /\ dom[Top(St, t).loc] # "ready"
  /\ UNCHANGED <<kind, delta>>
  /\ TaskStep(t, Return(Pop(St, t), t, "false"))

CreateShaderResume(t) ==
  /\ Running(t, "createShader", "delay")
  /\ UNCHANGED <<kind, delta>>
  /\ TaskStep(t, createShader_delay(St, t))

CreateKawarpResume(t) ==
  /\ Running(t, "createKawarp", "delay")
  /\ UNCHANGED <<kind, delta>>
  /\ TaskStep(t, createKawarp_delay(St, t))

\* instance.loadImage settles (resolved or rejected)
ImageLoaded(t, loaded) ==
  /\ UNCHANGED <<kind, delta>>
  /\ \/ /\ Running(t, "createKawarp", "load")
        /\ TaskStep(t, createKawarp_load(St, t, loaded))
     \/ /\ Running(t, "updateKawarpImage", "load")
        /\ TaskStep(t, updateKawarpImage_load(St, t, loaded))

\* extractColorsFromAlbumArt settles
Extracted(t) ==
  /\ Running(t, "extractAndUpdateColors", "extract")
  /\ UNCHANGED <<kind, delta>>
  /\ TaskStep(t, extractAndUpdateColors_extract(St, t))

\* storage.loadAlbumSettings settles
AlbumLoaded(t) ==
  /\ Running(t, "extractAndUpdateColors", "load")
  /\ UNCHANGED <<kind, delta>>
  /\ TaskStep(t, extractAndUpdateColors_load(St, t))

\* navigationManager.debouncedUpdate
debouncedUpdate(call) ==
  navTimer' = IF call /\ ~isProcessing THEN TRUE ELSE navTimer

\* the page changes; playerPageObserver calls debouncedUpdate when the
\* player page is added or removed
PageChange(d) ==
  /\ d # dom
  /\ envLeft > 0
  /\ envLeft' = envLeft - 1
  /\ dom' = d
  /\ debouncedUpdate((dom["player"] = "absent") # (d["player"] = "absent"))
  /\ EnvStep
  /\ UNCHANGED <<gradientSettings, dmRef, lastImageSrc, currentAlbumArtUrl,
                 reusableMultipliers, audio,
                 audioInit, shaders, leakedMounts, lastKnownColors, kawarps,
                 leakedInstances, orphInst, isProcessing, art, stacks, status>>

\* the artwork changes: songImageObserver calls debouncedUpdate; on a new
\* video id navigationHandler also calls resetImageTracking
ArtChange(img, newVideo) ==
  /\ img # art
  /\ envLeft > 0
  /\ envLeft' = envLeft - 1
  /\ art' = img
  /\ lastImageSrc' = IF newVideo THEN 0 ELSE lastImageSrc
  /\ currentAlbumArtUrl' = IF newVideo THEN 0 ELSE currentAlbumArtUrl
  /\ debouncedUpdate(TRUE)
  /\ EnvStep
  /\ UNCHANGED <<gradientSettings, dmRef, reusableMultipliers, audio,
                 audioInit, shaders, leakedMounts, lastKnownColors, kawarps,
                 leakedInstances, orphInst, isProcessing, dom, stacks, status>>

\* audioAnalysis.initializeAudioAnalysis finds the media element
AudioInitialized ==
  /\ ~audioInit
  /\ audioInit' = TRUE
  /\ EnvStep
  /\ UNCHANGED <<gradientSettings, dmRef, lastImageSrc, currentAlbumArtUrl,
                 reusableMultipliers, audio,
                 shaders, leakedMounts, lastKnownColors, kawarps,
                 leakedInstances, orphInst, isProcessing, navTimer, dom, art,
                 envLeft, stacks, status>>

\* audioAnalysis.analyzeAudioFrame: the scheduled animation frame runs.
\* due: at least ANALYSIS_INTERVAL since the last analysed frame;
\* isBeat: the peak of the buffer exceeds the closure's threshold.
\* Spec leaves the clock and the samples of the frames open (SpecAudio has them).
analyzeAudioFrame(S, due, isBeat) ==
  IF ~S.audioInit THEN [S EXCEPT !.audio = [rafId |-> FALSE, settings |-> NoClosure]]
  ELSE IF ~due THEN S
  ELSE handleBeatDetected(
         [S EXCEPT !.reusable = analyzeAudioFrame_multipliers(S.audio.settings, isBeat)])

AnimationFrame(due, isBeat) ==
  /\ audio.rafId
  /\ Commit([analyzeAudioFrame(St, due, isBeat) EXCEPT !.stepActs = <<>>])
  /\ actor' = 0
  /\ UNCHANGED <<audioInit, navTimer, dom, art, envLeft, kind, delta, idleVars>>

\* storage.loadGradientSettings at boot: the settings stored by an earlier
\* session (the defaults, or the defaults switched off).
StoredSettings ==
  {DEFAULT_GRADIENT_SETTINGS, [DEFAULT_GRADIENT_SETTINGS EXCEPT !.enabled = FALSE]}

\* gradientController.startAudioIfEnabled, called once at the end of boot
startAudioIfEnabled(settings) ==
  IF settings.enabled /\ settings.audioResponsive
  THEN [rafId |-> TRUE, settings |-> Closure(settings)]
  ELSE [rafId |-> FALSE, settings |-> NoClosure]

\* No save requested yet, no album stored.
InitSave ==
  /\ now = 0
  /\ albumSaveDebounceTimer = NoTimer
  /\ store = <<>>
  /\ saves = <<>>
  /\ reqLog = <<>>
  /\ writeLog = <<>>
  /\ loads = <<>>
  /\ everManual = {}
  /\ reqBy = <<>>
  /\ useLog = <<>>

\* The controller after initializeApp on a page without target elements.
InitStored(settings, area) ==
  /\ gradientSettings = settings
  /\ dmRef = "default"
  /\ lastImageSrc = 0
  /\ currentAlbumArtUrl = 0
  /\ reusableMultipliers = DEFAULT_DYNAMIC_MULTIPLIERS
  /\ audio = startAudioIfEnabled(gradientSettings)
  /\ audioInit \in BOOLEAN
  /\ shaders = [loc \in Locs |-> createEmptyShaderState]
  /\ leakedMounts = [loc \in Locs |-> NoLeak]
  /\ lastKnownColors = 0
  /\ kawarps = [loc \in Locs |-> createEmptyKawarpState]
  /\ leakedInstances = [loc \in Locs |-> NoLeak]
  /\ orphInst = [k \in Tasks |-> FALSE]
  /\ isProcessing = FALSE
  /\ navTimer = FALSE
  /\ dom = [loc \in Locs |-> "absent"]
  /\ art = 1
  /\ envLeft = MaxEnv
  /\ stacks = [t \in Tasks |-> <<>>]
  /\ status = [t \in Tasks |-> "idle"]
  /\ kind = [t \in Tasks |-> "-"]
  /\ delta = [t \in Tasks |-> "-"]
  /\ acted = [t \in Tasks |-> FALSE]
  /\ actor = 0
  /\ stepActs = <<>>
  /\ lastAnalysisTime = 0
  /\ timestamp = 0
  /\ dataArray = [i \in 1..BufferLength |-> 0]
  /\ tick = NoTick
  /\ stopped = FALSE
  /\ kawarpState = createEmptyImageState
  /\ imageLoads = <<>>
  /\ requested = 0
  /\ requests = 0
  /\ anyFailed = FALSE
  /\ applied = NoSurface
  /\ targetWaits = [m \in Managers |-> NoWait]
  /\ perKey = NoSurfaces
  /\ imageCache = <<>>
  /\ extracts = <<>>
  /\ boosted = NoBoost
  /\ settingsArea = area
  /\ settingsCalls = <<>>
  /\ outcomes = {}
  /\ unhandledRejections = 0
  /\ retryLoops = NoRetry
  /\ awaited = [effect |-> FALSE, media |-> FALSE, songImage |-> FALSE]
  /\ animatedArt = NoArtwork
  /\ ease = NoEase
  /\ cacheLog = NoCacheLog
  /\ mesh = NoMesh
  /\ nav = NoNav

\* nothing is stored under GRADIENT_SETTINGS_STORAGE_KEY
InitCtl(settings) == InitStored(settings, NoStoredSettings)

\* The state after initializeApp on a page without target elements.
Init == (\E settings \in StoredSettings : InitCtl(settings)) /\ InitSave

Next ==
  \/ \E t \in Tasks, settings \in SettingsSnapshots : SettingsMessage(t, settings)
  \/ \E t \in Tasks, colors \in 0..MaxImages : ColorsMessage(t, colors)
  \/ \E t \in Tasks : DebounceFire(t)
  \/ \E t \in Tasks : TargetReady(t)
  \/ \E t \in Tasks : WaitTimeout(t)
  \/ \E t \in Tasks : CreateShaderResume(t)
  \/ \E t \in Tasks : CreateKawarpResume(t)
  \/ \E t \in Tasks, loaded \in BOOLEAN : ImageLoaded(t, loaded)
  \/ \E t \in Tasks : Extracted(t)
  \/ \E d \in Pages : PageChange(d)
  \/ \E img \in 0..MaxImages, newVideo \in BOOLEAN : ArtChange(img, newVideo)
  \/ AudioInitialized
  \/ \E due \in BOOLEAN, isBeat \in BOOLEAN : AnimationFrame(due, isBeat)

Spec == Init /\ [][Next]_vars

(***************************************************************************)
(* Properties of Spec.                                                     *)
(***************************************************************************)
\* every asynchronous operation that was started has settled
Settled == \A t \in Tasks : status[t] # "running"

\* a rendering handle is live: one a registry record holds, or an undisposed
\* one no registry record refers to
HandleLive ==
  \E loc \in Locs :
    \/ shaders[loc].mount
    \/ kawarps[loc].instance
    \/ leakedMounts[loc] # NoLeak
    \/ leakedInstances[loc] # NoLeak

\* the calls of createShader / createKawarp for loc that have not returned
InFlight(fn, loc) ==
  {t \in Tasks : \E i \in 1..Len(stacks[t]) :
      stacks[t][i].fn = fn /\ stacks[t][i].loc = loc}

\* C1: once a call of updateGradientSettings has switched enabled from true
\* to false, no handler has been started since, and every asynchronous
\* operation started earlier has settled, no mesh or kawarp rendering handle
\* is live on any surface.
C1_NoHandleAfterDisable ==
  \A t \in Tasks :
    (/\ delta[t] = "disable"
     /\ \A u \in Tasks : u > t => status[u] = "idle"
     /\ Settled)
    => ~HandleLive

\* C2: once every create call has returned, and no registry record was
\* deleted under a suspended create, no surface key has an undisposed handle
\* besides the one its registry record holds.
C2_OneHandlePerKey ==
  Settled =>
    \A loc \in Locs :
      /\ leakedMounts[loc].orphaned = 0 => leakedMounts[loc].overwritten = 0
      /\ leakedInstances[loc].orphaned = 0 => leakedInstances[loc].overwritten = 0

\* C3: at any time at most one createShader call and at most one
\* createKawarp call per surface key is in flight.
C3_OneCreateInFlight ==
  \A loc \in Locs, fn \in {"createShader", "createKawarp"} :
    Cardinality(InFlight(fn, loc)) <= 1

\* C4: of two updateGradientSettings calls A, B that arrived in this order,
\* A issues no surface or beat-detector action once B has issued one.
C4_ArrivalOrder ==
  [][\A a, b \in Tasks :
       (a < b /\ kind[a] = "settings" /\ kind[b] = "settings" /\ acted[b])
         => actor' # a]_vars

\* C5: the call that switches enabled from true to false issues exactly
\* destroy-all-shaders, destroy-all-kawarps and stop-analysis; and while
\* enabled is false no analysis frame is scheduled.
C5_DisableStopsEverything ==
  [][/\ \A t \in Tasks :
          (delta[t] = "-" /\ delta'[t] = "disable") =>
             stepActs' = << <<t, UGS, "destroyShader", "all">>,
                            <<t, UGS, "destroyKawarp", "all">>,
                            <<t, UGS, "stopAudioAnalysis", "">> >>
     /\ ~gradientSettings'.enabled => ~audio'.rafId]_vars

\* C6: the call that changes the variant while enabled stays true first
\* destroys the surfaces of the previous variant, and of no other, then
\* runs checkAndUpdateGradient under the new variant; it issues nothing
\* else, neither in that step nor after the reconciliation has returned.
C6_VariantChangeOnly ==
  [][\A t \in Tasks :
       /\ (delta[t] = "-" /\ delta'[t] = "variant") =>
            /\ gradientSettings'.shaderType # gradientSettings.shaderType
            /\ stepActs' =
                 << <<t, UGS,
                      IF gradientSettings.shaderType = "mesh"
                      THEN "destroyShader" ELSE "destroyKawarp", "all">>,
                    <<t, UGS, CAU, gradientSettings'.shaderType>> >>
            /\ \A loc \in Locs :
                 IF gradientSettings.shaderType = "mesh"
                 THEN ~shaders'[loc].mount ELSE ~kawarps'[loc].instance
       /\ delta[t] = "variant" =>
            \A i \in 1..Len(stepActs') : stepActs'[i][1] # t]_vars

\* C6 witness: the first update brought the popup's mesh copy (its browse-page
\* population is still waiting for the homepage target); the second, a reset
\* to the defaults, changed the variant back together with audioResponsive
\* and showOnBrowsePages, and has finished after its reconciliation created
\* the kawarp player surface.
C6_Witness ==
  /\ InFlight("createShader", "homepage") = {1}
  /\ delta[2] = "variant"
  /\ status[2] = "done"
  /\ gradientSettings = DEFAULT_GRADIENT_SETTINGS
  /\ kawarps["player"].instance

\* C7: after the settings updates, none of which switched the effect or
\* changed the variant, have completed and left audioResponsive false, the
\* multipliers the controller holds and those last applied to every live
\* surface are {1, 1}, whatever analysis ticks have run since.
C7_MultipliersOneWhenAudioOff ==
  (/\ ~gradientSettings.audioResponsive
   /\ \E t \in Tasks : kind[t] = "settings"
   /\ \A t \in Tasks : kind[t] = "settings" => delta[t] = "other" /\ status[t] = "done")
  => /\ dynamicMultipliers = DEFAULT_DYNAMIC_MULTIPLIERS
     /\ \A loc \in Locs :
          /\ shaders[loc].mount =>
               shaders[loc].lastMultipliers = DEFAULT_DYNAMIC_MULTIPLIERS
          /\ kawarps[loc].instance =>
               kawarps[loc].lastMultipliers = DEFAULT_DYNAMIC_MULTIPLIERS

\* C21: an updateGradientSettings call that keeps enabled true and changes
\* neither shaderType, showOnBrowsePages nor boostDullColors returns in the
\* step it starts in, issues no create and no destroy, and leaves every
\* rendering handle, registered or not, as it was.
C21_PlainUpdateKeepsHandles ==
  [][\A t \in Tasks :
       (/\ delta[t] = "-" /\ delta'[t] = "other"
        /\ gradientSettings'.showOnBrowsePages = gradientSettings.showOnBrowsePages
        /\ gradientSettings'.boostDullColors = gradientSettings.boostDullColors)
       => /\ status'[t] = "done"
          /\ \A i \in 1..Len(stepActs') :
                stepActs'[i][3] \in {"startAudioAnalysis", "updateKawarpSpeed",
                                     "updateShaderSettings", "updateKawarpSettings"}
          /\ \A loc \in Locs : /\ shaders'[loc].mount = shaders[loc].mount
                                /\ kawarps'[loc].instance = kawarps[loc].instance
          /\ leakedMounts' = leakedMounts
          /\ leakedInstances' = leakedInstances
          /\ orphInst' = orphInst]_vars

\* C21 witness: with the kawarp player surface live, the second update
\* switched audioResponsive off and nothing else; it has pushed the default
\* multipliers and the snapshot to the surface, which is still there.
C21_Witness ==
  /\ delta[2] = "other" /\ status[2] = "done"
  /\ stepActs = << <<2, "handleAudioResponsiveToggle", "updateKawarpSpeed", "all">>,
                   <<2, UGS, "updateKawarpSettings", "all">> >>
  /\ kawarps["player"].instance

(***************************************************************************)
(* SpecSave: the debounced album save and the album store.                 *)
(***************************************************************************)
MAX_STORED_ALBUMS == 50

Albums == 1..MaxAlbums
Urls == [album : Albums, query : 0..MaxQuery]
Palettes == 1..MaxPalettes

\* entries.sort by lastAccessed (stable), as an insertion sort
RECURSIVE SortByLastAccessed(_)
SortByLastAccessed(entries) ==
  IF Len(entries) <= 1 THEN entries
  ELSE LET rest == SortByLastAccessed(SubSeq(entries, 1, Len(entries) - 1))
           e == entries[Len(entries)]
           k == Cardinality({i \in 1..Len(rest) : rest[i].lastAccessed <= e.lastAccessed})
       IN SubSeq(rest, 1, k) \o <<e>> \o SubSeq(rest, k + 1, Len(rest))

\* An eviction that keeps the head of the sorted entries: the records
\* accessed longest ago survive and the most recent ones are dropped.
evictOldestAlbums_keepsOldest(albumSettings) ==
  IF Len(albumSettings) <= MAX_STORED_ALBUMS THEN albumSettings
  ELSE SubSeq(SortByLastAccessed(albumSettings), 1, MAX_STORED_ALBUMS)

\* storage.evictOldestAlbums
evictOldestAlbums(albumSettings) ==
  IF Len(albumSettings) <= MAX_STORED_ALBUMS THEN albumSettings
  ELSE LET entries == SortByLastAccessed(albumSettings)
       IN SubSeq(entries, Len(entries) - MAX_STORED_ALBUMS + 1, Len(entries))

SaveRequest(albumUrl, colors, colorsManuallyModified) ==
  /\ Len(reqLog) < MaxReq
  /\ reqLog' = Append(reqLog, [albumUrl |-> albumUrl, colors |-> colors,
                               colorsManuallyModified |-> colorsManuallyModified,
                               at |-> now * TICK_MS])
  /\ albumSaveDebounceTimer' =
       debouncedSaveAlbumColors(albumSaveDebounceTimer, Len(reqLog) + 1,
                                albumUrl, colors, colorsManuallyModified)
  /\ UNCHANGED <<now, store, saves, writeLog, ctlVars, extVars>>

\* updateGradientColors, lines 145-148: colours applied to the player surface
\* are saved as manually modified
ColorsSave(albumUrl, colors) == SaveRequest(albumUrl, colors, TRUE)

\* extractAndUpdateColors, lines 178-204: the palette of a new artwork for
\* which loadAlbumSettings found no record is saved as not modified
ExtractionSave(albumUrl, colors) ==
  /\ IndexOf(store, generateAlbumKey(albumUrl)) = 0
  /\ SaveRequest(albumUrl, colors, FALSE)

\* the timer callback, not before its deadline: it calls
\* storage.saveAlbumColors, which suspends at `await albumStorage.get`
TimerFire ==
  /\ albumSaveDebounceTimer # NoTimer
  /\ now * TICK_MS >= albumSaveDebounceTimer.deadline
  /\ saves' = Append(saves, [req |-> albumSaveDebounceTimer.req,
                             albumUrl |-> albumSaveDebounceTimer.albumUrl,
                             colors |-> albumSaveDebounceTimer.colors,
                             colorsManuallyModified |->
                               albumSaveDebounceTimer.colorsManuallyModified,
                             pc |-> "get", allAlbumSettings |-> <<>>])
  /\ writeLog' = Append(writeLog, [req |-> albumSaveDebounceTimer.req,
                                   albumUrl |-> albumSaveDebounceTimer.albumUrl,
                                   colors |-> albumSaveDebounceTimer.colors,
                                   colorsManuallyModified |->
                                     albumSaveDebounceTimer.colorsManuallyModified])
  /\ albumSaveDebounceTimer' = NoTimer
  /\ UNCHANGED <<now, store, reqLog, ctlVars, extVars>>

\* storage.saveAlbumColors from the result of `get` up to `await albumStorage.set`
saveAlbumColors_get(i) ==
  /\ i \in 1..Len(saves)
  /\ saves[i].pc = "get"
  /\ LET call == saves[i]
         albumKey == generateAlbumKey(call.albumUrl)
         k == IndexOf(store, albumKey)
         wasManuallyModified ==
           call.colorsManuallyModified \/ (k # 0 /\ store[k].colorsManuallyModified)
         entry == [key |-> albumKey, colors |-> call.colors,
                   colorsManuallyModified |-> wasManuallyModified,
                   lastAccessed |-> now * TICK_MS]
         all == IF k # 0 THEN [store EXCEPT ![k] = entry] ELSE Append(store, entry)
     IN saves' = [saves EXCEPT ![i] = [call EXCEPT !.pc = "set",
                                         !.allAlbumSettings = evictOldestAlbums(all)]]
  /\ UNCHANGED <<now, albumSaveDebounceTimer, store, reqLog, writeLog, ctlVars, extVars>>

\* albumStorage.set completes: the map the call built replaces the stored one
saveAlbumColors_set(i) ==
  /\ i \in 1..Len(saves)
  /\ saves[i].pc = "set"
  /\ store' = saves[i].allAlbumSettings
  /\ everManual' = everManual \cup Manual(store')
  /\ saves' = SubSeq(saves, 1, i - 1) \o SubSeq(saves, i + 1, Len(saves))
  /\ UNCHANGED <<now, albumSaveDebounceTimer, reqLog, writeLog, ctlVars, loads, logVars, unitVars>>

Tick ==
  /\ now < MaxTime
  /\ now' = now + 1
  /\ UNCHANGED <<albumSaveDebounceTimer, store, saves, reqLog, writeLog, ctlVars, extVars>>

NextSave ==
  \/ \E albumUrl \in Urls, colors \in Palettes : ColorsSave(albumUrl, colors)
  \/ \E albumUrl \in Urls, colors \in Palettes : ExtractionSave(albumUrl, colors)
  \/ TimerFire
  \/ \E i \in 1..MaxReq : saveAlbumColors_get(i)
  \/ \E i \in 1..MaxReq : saveAlbumColors_set(i)
  \/ Tick

\* The controller is left alone, in one of its initial states.
InitSpecSave ==
  /\ Init
  /\ gradientSettings = DEFAULT_GRADIENT_SETTINGS
  /\ audioInit = TRUE

SpecSave == InitSpecSave /\ [][NextSave]_vars

(***************************************************************************)
(* Properties of SpecSave.                                                 *)
(***************************************************************************)
KeyOf(r) == generateAlbumKey(r.albumUrl)

\* the storage.saveAlbumColors calls made for the i-th save request
WritesOf(i) == {w \in 1..Len(writeLog) : writeLog[w].req = i}

\* no timer pending and no storage call in flight
Quiescent == albumSaveDebounceTimer = NoTimer /\ saves = <<>>

\* C8: of two consecutive debouncedSaveAlbumColors calls for the same album
\* key less than 1 s apart, the first is never written; the second is
\* written at most once, with its own colours and flag, and exactly once
\* when it is the last call and its timer has fired.
C8_OneWriteSecondValues ==
  \A i \in 1..(Len(reqLog) - 1) :
    LET first == reqLog[i]
        second == reqLog[i + 1]
    IN (KeyOf(first) = KeyOf(second) /\ second.at - first.at < DEBOUNCE_MS) =>
         /\ WritesOf(i) = {}
         /\ Cardinality(WritesOf(i + 1)) <= 1
         /\ \A w \in WritesOf(i + 1) :
              /\ writeLog[w].albumUrl = second.albumUrl
              /\ writeLog[w].colors = second.colors
              /\ writeLog[w].colorsManuallyModified = second.colorsManuallyModified
         /\ (i + 1 = Len(reqLog) /\ albumSaveDebounceTimer = NoTimer) =>
              WritesOf(i + 1) # {}

\* C8 witness: two calls for one album key 500 ms apart, with different
\* URLs, colours and flags, and the one write they led to has been stored.
C8_Witness ==
  /\ Len(reqLog) = 2
  /\ KeyOf(reqLog[1]) = KeyOf(reqLog[2])
  /\ reqLog[1].albumUrl # reqLog[2].albumUrl
  /\ reqLog[1].colors # reqLog[2].colors
  /\ reqLog[1].colorsManuallyModified # reqLog[2].colorsManuallyModified
  /\ reqLog[2].at - reqLog[1].at = TICK_MS
  /\ Len(writeLog) = 1
  /\ Quiescent
  /\ store # <<>>

\* C9: once no timer is pending, every save request that no later request
\* for the same album key replaced has been written, whatever requests for
\* other albums arrived within its debounce window.
C9_TimerPerAlbum ==
  albumSaveDebounceTimer = NoTimer =>
    \A i \in 1..Len(reqLog) :
      (\A j \in (i + 1)..Len(reqLog) : KeyOf(reqLog[j]) # KeyOf(reqLog[i]))
        => WritesOf(i) # {}

\* C10: once the saves have settled, an album key for which all requests
\* were made, one of them with colorsManuallyModified = true, and which had
\* no record before, has a stored record with colorsManuallyModified = true.
C10_ManualFlagSticks ==
  Quiescent =>
    \A album \in Albums :
      (/\ \A i \in 1..Len(reqLog) : KeyOf(reqLog[i]) = album
       /\ \E i \in 1..Len(reqLog) : reqLog[i].colorsManuallyModified)
      => /\ IndexOf(store, album) # 0
         /\ store[IndexOf(store, album)].colorsManuallyModified


(***************************************************************************)
(* SpecStore: the album store (storage.ts) next to its bound.              *)
(*                                                                         *)
(* Earlier sessions have stored MAX_STORED_ALBUMS - 1 albums.  The timer   *)
(* callback of debouncedSaveAlbumColors calls saveAlbumColors, and          *)
(* extractAndUpdateColors calls loadAlbumSettings; timer callbacks are at   *)
(* least DEBOUNCE_MS apart, and here a saveAlbumColors call has finished    *)
(* before the next one starts.  loadAlbumSettings calls overlap freely     *)
(* with it and with each other.                                            *)
(***************************************************************************)
StoreAlbums == {1, 2, MAX_STORED_ALBUMS, MAX_STORED_ALBUMS + 1}
StoreUrls == [album : StoreAlbums, query : {0}]

\* lastAccessed of the i-th album stored by the earlier sessions: before this
\* session's clock started, album 1 the oldest, the others in no order.
EarlierAccess(i) ==
  IF i = 1 THEN (0 - MAX_STORED_ALBUMS) * TICK_MS
  ELSE (0 - (MAX_STORED_ALBUMS - (((i - 1) * 7) % MAX_STORED_ALBUMS))) * TICK_MS

\* the store left by the earlier sessions; m: the albums whose colours the
\* user had edited
EarlierStore(m) ==
  [i \in 1..(MAX_STORED_ALBUMS - 1) |->
     [key |-> i, colors |-> 1, colorsManuallyModified |-> i \in m,
      lastAccessed |-> EarlierAccess(i)]]

\* the timer callback calls storage.saveAlbumColors, which suspends at
\* `await albumStorage.get`; the clock has advanced since the previous call
saveAlbumColors(albumUrl, colors, colorsManuallyModified) ==
  /\ saves = <<>>
  /\ now < MaxCalls
  /\ now' = now + 1
  /\ saves' = <<[req |-> now + 1, albumUrl |-> albumUrl, colors |-> colors,
                 colorsManuallyModified |-> colorsManuallyModified,
                 pc |-> "get", allAlbumSettings |-> <<>>]>>
  /\ UNCHANGED <<albumSaveDebounceTimer, store, reqLog, writeLog, ctlVars, extVars>>

\* storage.loadAlbumSettings is called and suspends at `await albumStorage.get`
loadAlbumSettings(albumArtUrl) ==
  /\ Len(loads) < MaxLoads
  /\ now < MaxCalls
  /\ now' = now + 1
  /\ loads' = Append(loads, [albumArtUrl |-> albumArtUrl, pc |-> "get",
                             allAlbumSettings |-> <<>>])
  /\ UNCHANGED <<albumSaveDebounceTimer, store, saves, reqLog, writeLog, ctlVars,
                 everManual, logVars, unitVars>>

\* storage.loadAlbumSettings from the result of `get`: a record found is
\* stamped and the whole map is written back (the `set` is not awaited)
loadAlbumSettings_get(i) ==
  /\ i \in 1..Len(loads)
  /\ loads[i].pc = "get"
  /\ LET albumKey == generateAlbumKey(loads[i].albumArtUrl)
         k == IndexOf(store, albumKey)
     IN loads' = IF k = 0
                 THEN SubSeq(loads, 1, i - 1) \o SubSeq(loads, i + 1, Len(loads))
                 ELSE [loads EXCEPT ![i] =
                         [@ EXCEPT !.pc = "set",
                                   !.allAlbumSettings =
                                      [store EXCEPT ![k].lastAccessed = now * TICK_MS]]]
  /\ UNCHANGED <<saveVars, ctlVars, everManual, logVars, unitVars>>

\* the albumStorage.set of loadAlbumSettings completes
loadAlbumSettings_set(i) ==
  /\ i \in 1..Len(loads)
  /\ loads[i].pc = "set"
  /\ store' = loads[i].allAlbumSettings
  /\ everManual' = everManual \cup Manual(store')
  /\ loads' = SubSeq(loads, 1, i - 1) \o SubSeq(loads, i + 1, Len(loads))
  /\ UNCHANGED <<now, albumSaveDebounceTimer, saves, reqLog, writeLog, ctlVars, logVars, unitVars>>

\* storage.clearAllAlbumSettings: albumStorage.remove completes
clearAllAlbumSettings ==
  /\ store # <<>>
  /\ store' = <<>>
  /\ everManual' = {}
  /\ UNCHANGED <<now, albumSaveDebounceTimer, saves, reqLog, writeLog, ctlVars, loads,
                 logVars, unitVars>>

NextStore ==
  \/ \E albumUrl \in StoreUrls, colorsManuallyModified \in BOOLEAN :
       saveAlbumColors(albumUrl, MaxPalettes, colorsManuallyModified)
  \/ \E i \in 1..MaxReq : saveAlbumColors_get(i)
  \/ \E i \in 1..MaxReq : saveAlbumColors_set(i)
  \/ \E albumArtUrl \in StoreUrls : loadAlbumSettings(albumArtUrl)
  \/ \E i \in 1..MaxLoads : loadAlbumSettings_get(i)
  \/ \E i \in 1..MaxLoads : loadAlbumSettings_set(i)
  \/ clearAllAlbumSettings

InitSpecStore ==
  /\ InitCtl(DEFAULT_GRADIENT_SETTINGS)
  /\ audioInit = TRUE
  /\ now = 0
  /\ albumSaveDebounceTimer = NoTimer
  /\ \E m \in SUBSET {1, 2} : store = EarlierStore(m) /\ everManual = m
  /\ saves = <<>>
  /\ reqLog = <<>>
  /\ writeLog = <<>>
  /\ loads = <<>>
  /\ reqBy = <<>>
  /\ useLog = <<>>

SpecStore == InitSpecStore /\ [][NextStore]_vars

(***************************************************************************)
(* Properties of SpecStore.                                                *)
(***************************************************************************)
\* C11: an album key that has been stored with colorsManuallyModified = true
\* since the last clearAllAlbumSettings is, whenever a record is stored for
\* it, stored with colorsManuallyModified = true.
C11_ManualFlagNeverReverts ==
  \A k \in everManual :
    IndexOf(store, k) # 0 => store[IndexOf(store, k)].colorsManuallyModified


\* the records of a stored map
RecordsOf(all) == {all[j] : j \in 1..Len(all)}

\* C12: when saveAlbumColors saves a new album key while MAX_STORED_ALBUMS
\* records are stored, the map it writes holds exactly MAX_STORED_ALBUMS
\* records: all the records held at that moment (the stored ones and the new
\* one) but one, and no held record was accessed earlier than the one
\* removed.  The store never holds more than MAX_STORED_ALBUMS records.
C12_EvictsOldest ==
  [][/\ Len(store') <= MAX_STORED_ALBUMS
     /\ \A i \in 1..Len(saves) :
          ( /\ i <= Len(saves')
            /\ saves[i].pc = "get" /\ saves'[i].pc = "set"
            /\ Len(store) = MAX_STORED_ALBUMS
            /\ IndexOf(store, KeyOf(saves[i])) = 0 )
          => LET out == RecordsOf(saves'[i].allAlbumSettings)
                 held == RecordsOf(store) \cup
                           {[key |-> KeyOf(saves[i]), colors |-> saves[i].colors,
                             colorsManuallyModified |-> saves[i].colorsManuallyModified,
                             lastAccessed |-> now * TICK_MS]}
             IN /\ Len(saves'[i].allAlbumSettings) = MAX_STORED_ALBUMS
                /\ Cardinality(out) = MAX_STORED_ALBUMS
                /\ \E r \in held :
                     /\ out = held \ {r}
                     /\ \A q \in held : r.lastAccessed <= q.lastAccessed
    ]_vars

\* C12 witness: with 49 albums stored earlier, albums 50 and 51 have been
\* saved; the store holds 50 records, among them album 51 and not album 1,
\* the one accessed longest ago.
C12_Witness ==
  /\ saves = <<>>
  /\ Len(store) = MAX_STORED_ALBUMS
  /\ IndexOf(store, MAX_STORED_ALBUMS + 1) # 0
  /\ IndexOf(store, MAX_STORED_ALBUMS) # 0
  /\ IndexOf(store, 1) = 0


(***************************************************************************)
(* SpecRemember: the controller with the mesh variant and                  *)
(* rememberAlbumSettings on, up to the save requests it makes.             *)
(***************************************************************************)
\* the snapshots the popup sends here: toggles of audioResponsive,
\* showOnBrowsePages and boostDullColors
RememberSnapshots ==
  [enabled : {TRUE}, shaderType : {"mesh"}, audioResponsive : BOOLEAN,
   audioSpeedMultiplier : {DEFAULT_audioSpeedMultiplier},
   audioScaleBoost : {DEFAULT_audioScaleBoost},
   audioBeatThreshold : {DEFAULT_audioBeatThreshold},
   kawarpAnimationSpeed : {DEFAULT_kawarpAnimationSpeed},
   showOnBrowsePages : BOOLEAN, boostDullColors : BOOLEAN,
   rememberAlbumSettings : {TRUE}]

\* the album stores an earlier session can have left for artwork 1: no
\* record, or a record with an empty or a user-picked colour list
RememberStores ==
  {<<>>} \cup
  { <<[key |-> generateAlbumKey(UrlOf(1)), colors |-> c,
       colorsManuallyModified |-> m, lastAccessed |-> 0 - TICK_MS]>> :
    c \in {0, UserPalette}, m \in BOOLEAN }

InitSpecRemember ==
  /\ \E boost \in BOOLEAN :
       InitCtl([DEFAULT_GRADIENT_SETTINGS EXCEPT
                  !.shaderType = "mesh", !.audioResponsive = FALSE,
                  !.boostDullColors = boost, !.rememberAlbumSettings = TRUE])
  /\ audioInit = TRUE
  /\ now = 0
  /\ albumSaveDebounceTimer = NoTimer
  /\ store \in RememberStores
  /\ everManual = Manual(store)
  /\ saves = <<>>
  /\ reqLog = <<>>
  /\ writeLog = <<>>
  /\ loads = <<>>
  /\ reqBy = <<>>
  /\ useLog = <<>>

NextRemember ==
  \/ \E t \in Tasks, settings \in RememberSnapshots : SettingsMessage(t, settings)
  \/ \E t \in Tasks, colors \in {0, UserPalette} : ColorsMessage(t, colors)
  \/ \E t \in Tasks : DebounceFire(t)
  \/ \E t \in Tasks : TargetReady(t)
  \/ \E t \in Tasks : CreateShaderResume(t)
  \/ \E t \in Tasks : Extracted(t)
  \/ \E t \in Tasks : AlbumLoaded(t)
  \/ \E d \in Pages : PageChange(d)
  \/ \E img \in 0..MaxImages, newVideo \in BOOLEAN : ArtChange(img, newVideo)

SpecRemember == InitSpecRemember /\ [][NextRemember]_vars

(***************************************************************************)
(* Properties of SpecRemember.                                             *)
(***************************************************************************)
\* C13: whenever extractAndUpdateColors found a saved record for the item
\* (rememberAlbumSettings on, saved colours not skipped), the colours it went
\* on with are the saved colours if the saved list is non-empty and the
\* record is manually modified or boostDullColors is off, and the freshly
\* extracted colours in every other case.
C13_SavedOrExtracted ==
  \A i \in 1..Len(useLog) :
    LET u == useLog[i] IN
    u.colorsToUse =
      IF u.saved.colors # 0 /\ (u.saved.colorsManuallyModified \/ ~u.boostDullColors)
      THEN u.saved.colors ELSE u.extracted

\* C13 witness: with boostDullColors on, the saved colours of a manually
\* modified record were chosen over the extracted ones and are shown by the
\* player surface.
C13_Witness ==
  /\ Len(useLog) = 1
  /\ useLog[1].saved.colorsManuallyModified /\ useLog[1].boostDullColors
  /\ useLog[1].colorsToUse = UserPalette /\ useLog[1].extracted = Palette(1)
  /\ useLog[1].applied
  /\ shaders["player"].mount /\ shaders["player"].colors = UserPalette

\* C14: a save request with colorsManuallyModified = true is made only by
\* the handler of an updateColors message, and no save request is made inside
\* a re-extraction that skips the saved colours.
C14_ManualOnlyFromUserEdit ==
  \A i \in 1..Len(reqLog) :
    /\ reqLog[i].colorsManuallyModified => reqBy[i].kind = "colors"
    /\ ~reqBy[i].skipSavedColors

(***************************************************************************)
(* SpecAudio: audioAnalysis.ts on its own, with the frames' timestamps and  *)
(* samples, driven by a consumer that may stop the analysis from inside    *)
(* its callback.                                                           *)
(***************************************************************************)
MaxTimestamp == 200    \* the run ends at this frame timestamp, in ms
FrameGaps == {50, 100}                 \* ms between two animation frames
Samples == {128, 144, 145}   \* bytes of getByteTimeDomainData
Volumes == {1, 50}                \* element.volume, in hundredths
AudioSettings ==
  {[DEFAULT_GRADIENT_SETTINGS EXCEPT !.audioResponsive = r, !.audioBeatThreshold = th] :
     r \in BOOLEAN, th \in {DEFAULT_audioBeatThreshold, 125}}

\* what audioAnalysis.ts does not write
audioIdleVars ==
  <<gradientSettings, dmRef, lastImageSrc, currentAlbumArtUrl, audioInit,
    shaders, leakedMounts, lastKnownColors, kawarps, leakedInstances,
    orphInst, isProcessing, navTimer, dom, art, envLeft, stacks, status,
    kind, delta, acted, actor, stepActs, saveVars, loads, everManual, logVars,
    kawarpVars, applied, targetWaits, perKey, colorVars,
    storageVars, retryVars, artVars, easeVars, cacheVars, meshVars, navVars>>

\* startAudioAnalysis(settings, onBeatDetected)
StartAudioAnalysis(settings) ==
  /\ audio' = startAudioAnalysis(St, settings).audio
  /\ lastAnalysisTime' = 0
  /\ stopped' = FALSE
  /\ UNCHANGED <<timestamp, dataArray, tick, reusableMultipliers, audioIdleVars>>

\* stopAudioAnalysis()
StopAudioAnalysis ==
  /\ audio' = stopAudioAnalysis(St).audio
  /\ lastAnalysisTime' = 0
  /\ stopped' = TRUE
  /\ UNCHANGED <<timestamp, dataArray, tick, reusableMultipliers, audioIdleVars>>

\* The animation frame scheduled by startAudioAnalysis or by the previous
\* frame runs analyzeAudioFrame(settings, onBeatDetected, timestamp').
\* data, volume: what the analyser and the media element return;
\* consumerStops: onBeatDetected calls stopAudioAnalysis().
AudioFrame(gap, data, volume, consumerStops) ==
  /\ audio.rafId
  /\ timestamp + gap <= MaxTimestamp
  /\ timestamp' = timestamp + gap
  /\ UNCHANGED audioIdleVars
  /\ IF ~audioInit
     THEN /\ audio' = [rafId |-> FALSE, settings |-> NoClosure]
          /\ data = dataArray /\ volume = 1 /\ ~consumerStops
          /\ UNCHANGED <<lastAnalysisTime, dataArray, tick, stopped, reusableMultipliers>>
     ELSE LET settings == audio.settings
              due == timestamp' - lastAnalysisTime >= ANALYSIS_INTERVAL
              threshold == settings.audioBeatThreshold
              scan == analyzeAudioFrame_scan(data, volumeMultiplier(volume), threshold, 1, 0)
              isBeat == Exceeds(scan.peak, threshold)
              m == analyzeAudioFrame_multipliers(settings, isBeat)
          IN IF due
             THEN /\ dataArray' = data
                  /\ reusableMultipliers' = m
                  /\ tick' = [timestamp |-> timestamp', previous |-> lastAnalysisTime,
                              due |-> TRUE, volume |-> volume, threshold |-> threshold,
                              peak |-> scan.peak, read |-> scan.read, isBeat |-> isBeat,
                              settings |-> settings, delivered |-> <<m>>,
                              stoppedInside |-> consumerStops]
                  /\ stopped' = (stopped \/ consumerStops)
                  /\ lastAnalysisTime' = timestamp'
                  /\ audio' = [rafId |-> TRUE, settings |-> settings]
             ELSE /\ data = dataArray /\ volume = 1 /\ ~consumerStops
                  /\ tick' = [NoTick EXCEPT !.timestamp = timestamp',
                                            !.previous = lastAnalysisTime,
                                            !.settings = settings]
                  /\ audio' = [rafId |-> TRUE, settings |-> settings]
                  /\ UNCHANGED <<lastAnalysisTime, dataArray, stopped, reusableMultipliers>>

NextAudio ==
  \/ \E settings \in AudioSettings : StartAudioAnalysis(settings)
  \/ StopAudioAnalysis
  \/ \E gap \in FrameGaps, data \in [1..BufferLength -> Samples], volume \in Volumes,
        consumerStops \in BOOLEAN :
       AudioFrame(gap, data, volume, consumerStops)

\* After initializeAudioAnalysis has connected the analyser, nothing started.
InitSpecAudio ==
  /\ InitCtl([DEFAULT_GRADIENT_SETTINGS EXCEPT !.audioResponsive = FALSE])
  /\ audioInit = TRUE
  /\ InitSave

SpecAudio == InitSpecAudio /\ [][NextAudio]_vars

\* The largest normalized deviation of the whole buffer, in 1/128.
MaxDeviation(data, volume) ==
  LET all == {Abs(data[i] - 128) * volumeMultiplier(volume) : i \in 1..Len(data)}
  IN CHOOSE a \in all : \A b \in all : b <= a

\* C15: a frame that analyses its samples takes them for a beat exactly when
\* the largest normalized deviation over the whole buffer is strictly greater
\* than the threshold, wherever the scan stopped.
C15_BeatIffPeakAboveThreshold ==
  tick.due =>
    (tick.isBeat <=> MaxDeviation(dataArray, tick.volume) * 1000 > tick.threshold * 128)

\* The scan stopped before the last sample, below the largest deviation of
\* the buffer, and the frame was taken for a beat.
C15_Witness ==
  /\ tick.due /\ tick.isBeat
  /\ tick.read < BufferLength
  /\ tick.peak < MaxDeviation(dataArray, tick.volume)

\* C16: once stopAudioAnalysis has returned, no frame is scheduled and the
\* consumer is not called until startAudioAnalysis is called again, also when
\* the consumer called stopAudioAnalysis from inside its callback.
C16_StoppedStaysStopped ==
  [][/\ stopped' => ~audio'.rafId
     /\ (stopped /\ timestamp' # timestamp) => tick'.delivered = <<>>]_vars

\* C17: a frame at least ANALYSIS_INTERVAL after the previously analysed one
\* delivers exactly one value to the consumer: audioSpeedMultiplier and
\* 1 + audioScaleBoost/100 on a beat with audioResponsive on, 1 and 1 otherwise.
C17_OneValuePerTick ==
  tick.timestamp - tick.previous >= ANALYSIS_INTERVAL /\ tick.timestamp > 0 =>
    tick.delivered =
      << IF tick.settings.audioResponsive /\ tick.isBeat
         THEN [speedMultiplier |-> tick.settings.audioSpeedMultiplier,
               scaleMultiplier |-> 100 + tick.settings.audioScaleBoost]
         ELSE [speedMultiplier |-> 1, scaleMultiplier |-> 100] >>

\* A frame 100 ms after the previously analysed one found a beat with
\* audioResponsive off and delivered 1 and 1.
C17_Witness ==
  /\ tick.previous > 0
  /\ tick.timestamp - tick.previous = ANALYSIS_INTERVAL
  /\ tick.isBeat /\ ~tick.settings.audioResponsive
  /\ tick.delivered = <<[speedMultiplier |-> 1, scaleMultiplier |-> 100]>>

(***************************************************************************)
(* SpecKawarp: the image of one kawarp surface (kawarpManager.ts):         *)
(* createKawarp's first image, updateKawarpImage, processImageTransition   *)
(* and its timer.  The surface is created once and not destroyed.          *)
(***************************************************************************)
MaxRequests == 4       \* updateKawarpImage calls per run
MaxArt == 2            \* distinct album art URLs

\* what the image transitions do not write
kawarpIdleVars ==
  <<gradientSettings, dmRef, lastImageSrc, currentAlbumArtUrl, reusableMultipliers,
    audio, audioInit, shaders, leakedMounts, lastKnownColors, kawarps,
    leakedInstances, orphInst, isProcessing, navTimer, dom, envLeft, stacks, status,
    kind, delta, acted, actor, stepActs, saveVars, loads, everManual, logVars,
    frameVars, applied, targetWaits, perKey, colorVars,
    storageVars, retryVars, artVars, easeVars, cacheVars, meshVars, navVars>>

\* processImageTransition(state, imageUrl) up to `await state.instance.loadImage`
processImageTransition(state, loading, imageUrl) ==
  IF ~state.instance THEN [state |-> state, loading |-> loading]
  ELSE [state |-> [state EXCEPT !.isTransitioning = TRUE,
                                !.transitionTimeoutId =
                                   IF @ = "null" THEN "null" ELSE "cleared"],
        loading |-> Append(loading, [imageUrl |-> imageUrl, by |-> "processImageTransition"])]

\* createKawarp from `new Kawarp` to `await state.instance.loadImage(albumArtUrl)`
CreateKawarp ==
  /\ ~kawarpState.instance
  /\ kawarpState' = [kawarpState EXCEPT !.instance = TRUE]
  /\ imageLoads' = IF art # 0
                   THEN Append(imageLoads, [imageUrl |-> art, by |-> "createKawarp"])
                   ELSE imageLoads
  /\ requested' = art
  /\ UNCHANGED <<art, requests, anyFailed, kawarpIdleVars>>

\* The page shows albumArtUrl and updateKawarpImage() is called.
UpdateKawarpImage(albumArtUrl) ==
  /\ requests < MaxRequests
  /\ requests' = requests + 1
  /\ art' = albumArtUrl
  /\ requested' = IF kawarpState.instance THEN albumArtUrl ELSE requested
  /\ IF ~kawarpState.instance \/ albumArtUrl = 0
        \/ albumArtUrl = kawarpState.currentImageUrl
     THEN UNCHANGED <<kawarpState, imageLoads>>
     ELSE IF kawarpState.isTransitioning
     THEN /\ kawarpState' = [kawarpState EXCEPT !.pendingImageUrl = albumArtUrl]
          /\ UNCHANGED imageLoads
     ELSE LET r == processImageTransition(kawarpState, imageLoads, albumArtUrl)
          IN kawarpState' = r.state /\ imageLoads' = r.loading
  /\ UNCHANGED <<anyFailed, kawarpIdleVars>>

\* The i-th loadImage call in flight settles; createKawarp or
\* processImageTransition continues after its await.
ImageSettles(i, loaded) ==
  /\ i \in 1..Len(imageLoads)
  /\ imageLoads' = [j \in 1..(Len(imageLoads) - 1) |->
                      IF j < i THEN imageLoads[j] ELSE imageLoads[j + 1]]
  /\ anyFailed' = (anyFailed \/ ~loaded)
  /\ kawarpState' =
       IF imageLoads[i].by = "createKawarp"
       THEN IF loaded
            THEN [kawarpState EXCEPT !.currentImageUrl = imageLoads[i].imageUrl]
            ELSE kawarpState
       ELSE IF loaded
            THEN [kawarpState EXCEPT !.currentImageUrl = imageLoads[i].imageUrl,
                                     !.transitionTimeoutId = "armed"]
            ELSE [kawarpState EXCEPT !.isTransitioning = FALSE]
  /\ UNCHANGED <<art, requested, requests, kawarpIdleVars>>

\* The timer of processImageTransition fires after transitionDuration.
TransitionTimeout ==
  /\ kawarpState.transitionTimeoutId = "armed"
  /\ LET state == [kawarpState EXCEPT !.isTransitioning = FALSE,
                                      !.transitionTimeoutId = "null"]
     IN IF state.pendingImageUrl # 0 /\ state.pendingImageUrl # state.currentImageUrl
        THEN LET r == processImageTransition([state EXCEPT !.pendingImageUrl = 0],
                                             imageLoads, state.pendingImageUrl)
             IN kawarpState' = r.state /\ imageLoads' = r.loading
        ELSE kawarpState' = state /\ UNCHANGED imageLoads
  /\ UNCHANGED <<art, requested, requests, anyFailed, kawarpIdleVars>>

NextKawarp ==
  \/ CreateKawarp
  \/ \E albumArtUrl \in 0..MaxArt : UpdateKawarpImage(albumArtUrl)
  \/ \E i \in 1..(MaxRequests + 1), loaded \in BOOLEAN : ImageSettles(i, loaded)
  \/ TransitionTimeout

\* A page showing some album art, no surface yet.
InitSpecKawarp ==
  /\ InitCtl([DEFAULT_GRADIENT_SETTINGS EXCEPT !.audioResponsive = FALSE])
  /\ audioInit = TRUE
  /\ InitSave

SpecKawarp == InitSpecKawarp /\ [][NextKawarp]_vars

\* An image is on its way to the surface: being loaded, or shown with its
\* transition still running.
TransitionInFlight ==
  imageLoads # <<>> \/ kawarpState.isTransitioning

\* C18: a surface has at most one image transition in flight; an image that
\* arrives during it is not started and takes the one pending slot, whatever
\* that slot held (an image the surface already shows may also just empty it).
C18_OneTransitionInFlight ==
  [][/\ Len(imageLoads') <= 1
     /\ (requests' # requests /\ TransitionInFlight /\ art' # 0) =>
          /\ imageLoads' = imageLoads
          /\ \/ kawarpState'.pendingImageUrl = art'
             \/ /\ art' = kawarpState.currentImageUrl
                /\ kawarpState'.pendingImageUrl = 0]_vars

\* Nothing is on its way to the surface.
AtRest ==
  /\ kawarpState.instance
  /\ imageLoads = <<>>
  /\ ~kawarpState.isTransitioning
  /\ kawarpState.transitionTimeoutId # "armed"

\* C19: when the transition in flight ends, with its image loaded or not, a
\* pending image other than the current one is started; so a surface at rest
\* shows the image requested last (if no load was rejected).
C19_PendingImageStarted ==
  /\ [][(/\ kawarpState.isTransitioning
         /\ \/ ~kawarpState'.isTransitioning
            \/ /\ kawarpState.transitionTimeoutId = "armed"
               /\ kawarpState'.transitionTimeoutId = "null"
         /\ kawarpState.pendingImageUrl # 0
         /\ kawarpState.pendingImageUrl # kawarpState.currentImageUrl)
          => \E j \in 1..Len(imageLoads') :
               imageLoads'[j].imageUrl = kawarpState.pendingImageUrl]_vars
  /\ [](AtRest /\ ~anyFailed /\ requested # 0 => kawarpState.currentImageUrl = requested)

(***************************************************************************)
(* SpecSettings: the settings of one kawarp surface (kawarpManager.ts):    *)
(* createKawarp, updateKawarpSettings, updateKawarpSpeed.                  *)
(***************************************************************************)
\* The kawarp fields of GradientSettings that reach the renderer: of the five
\* setOptions knobs one (kawarpWarpIntensity), the speed, the opacity and the
\* transition duration; two values each.
KawarpSettings ==
  [kawarpWarpIntensity : {1, 2}, kawarpAnimationSpeed : {DEFAULT_kawarpAnimationSpeed, 2},
   kawarpOpacity : {75, 100}, kawarpTransitionDuration : {1000, 500}]

Multipliers ==
  {DEFAULT_DYNAMIC_MULTIPLIERS,
   [speedMultiplier |-> DEFAULT_audioSpeedMultiplier,
    scaleMultiplier |-> 100 + DEFAULT_audioScaleBoost]}

\* what the settings updates do not write
settingsIdleVars ==
  <<ctlVars, saveVars, loads, everManual, logVars, frameVars, kawarpVars, targetWaits,
    perKey, colorVars,
    storageVars, retryVars, artVars, easeVars, cacheVars, meshVars, navVars>>

\* settingsEqual over the fields carried here (lines 351-361)
settingsEqual_fields(a, b) ==
  /\ a # <<>>
  /\ a.kawarpWarpIntensity = b.kawarpWarpIntensity
  /\ a.kawarpAnimationSpeed = b.kawarpAnimationSpeed
  /\ a.kawarpOpacity = b.kawarpOpacity

\* createKawarp: new Kawarp(canvas, options), lastSettings, lastMultipliers
\* and the fade-in that sets the container's opacity
CreateSurface(settings, multipliers) ==
  /\ ~applied.instance
  /\ applied' =
       [instance |-> TRUE,
        options |-> [warpIntensity |-> settings.kawarpWarpIntensity,
                     animationSpeed |-> settings.kawarpAnimationSpeed * multipliers.speedMultiplier,
                     transitionDuration |-> settings.kawarpTransitionDuration],
        opacity |-> settings.kawarpOpacity,
        lastSettings |-> settings,
        lastMultipliers |-> multipliers,
        update |-> NoUpdate]
  /\ UNCHANGED settingsIdleVars

\* updateKawarpSettings(settings, multipliers)
UpdateKawarpSettings(settings, multipliers) ==
  /\ applied.instance
  /\ LET was == [options |-> applied.options, opacity |-> applied.opacity,
                 lastSettings |-> applied.lastSettings,
                 lastMultipliers |-> applied.lastMultipliers]
         update == [called |-> TRUE, settings |-> settings, multipliers |-> multipliers,
                    was |-> was, setOptions |-> FALSE]
     IN IF settingsEqual_fields(applied.lastSettings, settings)
        THEN applied' = [applied EXCEPT !.update = update]
        ELSE applied' =
               [applied EXCEPT
                  !.options = [@ EXCEPT
                     !.warpIntensity = settings.kawarpWarpIntensity,
                     !.animationSpeed = settings.kawarpAnimationSpeed * multipliers.speedMultiplier],
                  !.opacity = settings.kawarpOpacity,
                  !.lastSettings = settings,
                  !.lastMultipliers = multipliers,
                  !.update = [update EXCEPT !.setOptions = TRUE]]
  /\ UNCHANGED settingsIdleVars

\* updateKawarpSpeed(settings, multipliers), without the scale animation
UpdateKawarpSpeed(settings, multipliers) ==
  /\ applied.instance
  /\ applied.lastMultipliers # multipliers
  /\ applied' =
       [applied EXCEPT
          !.options.animationSpeed =
             IF applied.lastMultipliers.speedMultiplier # multipliers.speedMultiplier
             THEN settings.kawarpAnimationSpeed * multipliers.speedMultiplier ELSE @,
          !.lastMultipliers = multipliers,
          !.update = NoUpdate]
  /\ UNCHANGED settingsIdleVars

NextSettings ==
  \/ \E settings \in KawarpSettings, multipliers \in Multipliers :
       CreateSurface(settings, multipliers)
  \/ \E settings \in KawarpSettings, multipliers \in Multipliers :
       UpdateKawarpSettings(settings, multipliers)
  \/ \E settings \in KawarpSettings, multipliers \in Multipliers :
       UpdateKawarpSpeed(settings, multipliers)

\* No surface yet.
InitSpecSettings ==
  /\ InitCtl([DEFAULT_GRADIENT_SETTINGS EXCEPT !.audioResponsive = FALSE])
  /\ audioInit = TRUE
  /\ InitSave

SpecSettings == InitSpecSettings /\ [][NextSettings]_vars

\* C20: updateKawarpSettings leaves the surface as it was exactly when the
\* new settings equal the last-applied ones in every field that reaches the
\* renderer (the transition duration too) and the multipliers equal the
\* last-applied ones; otherwise the instance gets the new values and the
\* surface records the new settings and multipliers.
C20_UntouchedIffValueEqual ==
  applied.update.called =>
    LET u == applied.update
        equal == u.settings = u.was.lastSettings /\ u.multipliers = u.was.lastMultipliers
    IN IF equal
       THEN /\ ~u.setOptions
            /\ applied.options = u.was.options
            /\ applied.opacity = u.was.opacity
       ELSE /\ u.setOptions
            /\ applied.options =
                 [warpIntensity |-> u.settings.kawarpWarpIntensity,
                  animationSpeed |-> u.settings.kawarpAnimationSpeed * u.multipliers.speedMultiplier,
                  transitionDuration |-> u.settings.kawarpTransitionDuration]
            /\ applied.opacity = u.settings.kawarpOpacity
            /\ applied.lastSettings = u.settings
            /\ applied.lastMultipliers = u.multipliers

(***************************************************************************)
(* SpecTarget: waitForTargetReady of shaderManager.ts (a 500 ms poll) and  *)
(* of kawarpManager.ts (a MutationObserver and a timeout), one call at a   *)
(* time per module, on a page whose targets change.                        *)
(***************************************************************************)
MaxPolls == 3          \* poll callbacks counted per call (more are not told apart)

\* what waitForTargetReady does not write
targetIdleVars ==
  <<gradientSettings, dmRef, lastImageSrc, currentAlbumArtUrl, reusableMultipliers,
    audio, audioInit, shaders, leakedMounts, lastKnownColors, kawarps,
    leakedInstances, orphInst, isProcessing, navTimer, art, stacks, status,
    kind, delta, acted, actor, stepActs, saveVars, loads, everManual, logVars,
    frameVars, kawarpVars, applied, perKey, colorVars,
    storageVars, retryVars, artVars, easeVars, cacheVars, meshVars, navVars>>

\* target && target.children.length > 0
hasContent(loc) == dom[loc] = "ready"

\* waitForTargetReady(targetSelector) is called in module m, up to its first
\* timer; appElement: the page has a ytmusic-app element
waitForTargetReady(m, loc, appElement) ==
  /\ targetWaits[m].phase \in {"idle", "true", "false"}
  /\ m = "shaderManager" => appElement
  /\ targetWaits' =
       [targetWaits EXCEPT ![m] =
          [phase |-> IF hasContent(loc) THEN "delay"
                     ELSE IF m = "kawarpManager" /\ ~appElement THEN "false"
                     ELSE "wait",
           loc |-> loc, polls |-> 0]]
  /\ UNCHANGED <<dom, envLeft, targetIdleVars>>

\* shaderManager: the 500 ms timer runs checkReady again
checkReady ==
  /\ targetWaits["shaderManager"].phase = "wait"
  /\ targetWaits' =
       [targetWaits EXCEPT !["shaderManager"] =
          IF hasContent(@.loc)
          THEN [@ EXCEPT !.phase = "delay"]
          ELSE [@ EXCEPT !.polls = IF @ < MaxPolls THEN @ + 1 ELSE @]]
  /\ UNCHANGED <<dom, envLeft, targetIdleVars>>

\* kawarpManager: the maxWaitMs timer fires
waitTimeout ==
  /\ targetWaits["kawarpManager"].phase = "wait"
  /\ targetWaits' = [targetWaits EXCEPT !["kawarpManager"].phase = "false"]
  /\ UNCHANGED <<dom, envLeft, targetIdleVars>>

\* The page changes under ytmusic-app; kawarpManager's MutationObserver
\* callback runs.
TargetMutation(d) ==
  /\ d # dom
  /\ envLeft > 0
  /\ envLeft' = envLeft - 1
  /\ dom' = d
  /\ targetWaits' =
       [targetWaits EXCEPT !["kawarpManager"] =
          IF @.phase = "wait" /\ d[@.loc] = "ready"
          THEN [@ EXCEPT !.phase = "delay"] ELSE @]
  /\ UNCHANGED targetIdleVars

\* the delay timer (1000 ms for the player page, 100 ms otherwise) fires
delayElapsed(m) ==
  /\ targetWaits[m].phase = "delay"
  /\ targetWaits' = [targetWaits EXCEPT ![m].phase = "true"]
  /\ UNCHANGED <<dom, envLeft, targetIdleVars>>

NextTarget ==
  \/ \E m \in Managers, loc \in Locs, appElement \in BOOLEAN :
       waitForTargetReady(m, loc, appElement)
  \/ checkReady
  \/ waitTimeout
  \/ \E d \in Pages : TargetMutation(d)
  \/ \E m \in Managers : delayElapsed(m)

InitSpecTarget ==
  /\ InitCtl([DEFAULT_GRADIENT_SETTINGS EXCEPT !.audioResponsive = FALSE])
  /\ audioInit = TRUE
  /\ InitSave

\* Timers that are due fire.
SpecTarget ==
  /\ InitSpecTarget /\ [][NextTarget]_vars
  /\ WF_vars(checkReady) /\ WF_vars(waitTimeout)
  /\ \A m \in Managers : WF_vars(delayElapsed(m))

\* C22: the wait of a createShader / createKawarp call for its target is
\* bounded: if the target does not become ready, waitForTargetReady
\* resolves (to false).
C22_CreateWaitIsBounded ==
  \A m \in Managers :
    targetWaits[m].phase = "wait" ~>
      (targetWaits[m].phase # "wait" \/ hasContent(targetWaits[m].loc))

(***************************************************************************)
(* SpecDestroy: the calls of kawarpManager.ts and shaderManager.ts on one  *)
(* key, with every field of the key's state record, the elements in the   *)
(* page and the timers and animation frames of the event loop.  A create   *)
(* runs from a ready target to its return.                                 *)
(***************************************************************************)
MaxCreates == 2        \* createKawarp / createShader calls per key

\* the multipliers of the calls: the defaults and a scale boost
KeyMultipliers ==
  {DEFAULT_DYNAMIC_MULTIPLIERS,
   [DEFAULT_DYNAMIC_MULTIPLIERS EXCEPT !.scaleMultiplier = 100 + DEFAULT_audioScaleBoost]}

SCALE_LERP_UP == 50    \* 0.5, in hundredths
SCALE_LERP_DOWN == 12
SPEED_LERP_UP == 5
SPEED_LERP_DOWN == 3

\* what the calls on one key do not write
destroyIdleVars ==
  <<ctlVars, saveVars, loads, everManual, logVars, frameVars, kawarpVars, applied,
    targetWaits, colorVars,
    storageVars, retryVars, artVars, easeVars, cacheVars, meshVars, navVars>>

\* getKawarpState / getShaderState: the map gets an empty record for a new key
getState(W) == [W EXCEPT !.has = TRUE]

\* diff * lerpFactor, of at least one unit of the model
Lerp(diff, percent) ==
  LET d == IF diff < 0 THEN -diff ELSE diff
      step == IF (d * percent) \div 100 = 0 THEN 1 ELSE (d * percent) \div 100
  IN IF diff < 0 THEN -step ELSE step

\* destroyKawarp(location) without the elements staying in the page
destroyKawarp_key_keepsElements(W) ==
  [W EXCEPT !.has = FALSE, !.state = createEmptyState,
            !.timer = IF W.state.transitionTimeoutId # "null" THEN FALSE ELSE @,
            !.scaleFrame = IF W.state.scaleAnimationId THEN FALSE ELSE @,
            !.speedFrame = IF W.state.speedAnimationId THEN FALSE ELSE @,
            !.observing = IF W.state.observer THEN FALSE ELSE @,
            !.running = IF W.state.instance THEN FALSE ELSE @,
            !.live = IF W.state.instance THEN FALSE ELSE @,
            !.disposed = IF W.state.instance THEN @ + 1 ELSE @,
            !.loading = 0]

\* destroyKawarp(location): the timer, frames, observer, instance and
\* elements the record names are released, every field gets its default and
\* the key leaves the map.  A loadImage in flight keeps the deleted record.
destroyKawarp_key(W) ==
  LET state == getState(W).state IN
  [W EXCEPT !.has = FALSE, !.state = createEmptyState,
            !.timer = IF state.transitionTimeoutId # "null" THEN FALSE ELSE @,
            !.scaleFrame = IF state.scaleAnimationId THEN FALSE ELSE @,
            !.speedFrame = IF state.speedAnimationId THEN FALSE ELSE @,
            !.observing = IF state.observer THEN FALSE ELSE @,
            !.running = IF state.instance THEN FALSE ELSE @,
            !.live = IF state.instance THEN FALSE ELSE @,
            !.disposed = IF state.instance THEN @ + 1 ELSE @,
            !.attached = IF state.container \/ state.backdrop THEN FALSE ELSE @,
            !.loading = 0]

\* destroyShader(location)
destroyShader_key(W) ==
  LET state == getState(W).state IN
  [W EXCEPT !.has = FALSE, !.state = createEmptyState_shader,
            !.observing = IF state.observer THEN FALSE ELSE @,
            !.live = IF state.mount THEN FALSE ELSE @,
            !.disposed = IF state.mount THEN @ + 1 ELSE @,
            !.attached = IF state.container THEN FALSE ELSE @]

\* createKawarp from `const state = getKawarpState(location)` to its return,
\* the target being ready; loaded: the album art (0 = none) loads
createKawarp_key(W, multipliers, albumArtUrl, loaded) ==
  LET W0 == getState(W)
      dynamicSpeed == DEFAULT_kawarpAnimationSpeed * multipliers.speedMultiplier
  IN IF W0.state.instance
     THEN \* `state` still is the record that destroyKawarp deleted
          [destroyKawarp_key(W0) EXCEPT !.leaked = @ + 1]
     ELSE [W0 EXCEPT
             !.state = [@ EXCEPT !.container = TRUE, !.backdrop = TRUE,
                                 !.canvas = TRUE, !.instance = TRUE,
                                 !.currentSpeed = dynamicSpeed,
                                 !.targetSpeed = dynamicSpeed,
                                 !.lastSettings = 1,
                                 !.lastMultipliers = multipliers,
                                 !.currentImageUrl =
                                    IF albumArtUrl # 0 /\ loaded THEN albumArtUrl ELSE @,
                                 !.observer = TRUE],
             !.attached = TRUE, !.live = TRUE, !.running = TRUE,
             !.observing = TRUE, !.fadeIn = TRUE]

\* processImageTransition up to `await state.instance.loadImage(imageUrl)`
processImageTransition_key(W, imageUrl) ==
  IF ~W.state.instance \/ ~W.state.container THEN W
  ELSE [W EXCEPT !.state.isTransitioning = TRUE,
                 !.state.transitionTimeoutId = IF @ = "armed" THEN "cleared" ELSE @,
                 !.timer = IF W.state.transitionTimeoutId # "null" THEN FALSE ELSE @,
                 !.loading = imageUrl]

\* updateKawarpImage(location)
updateKawarpImage_key(W, albumArtUrl) ==
  LET W0 == getState(W) IN
  IF ~W0.state.instance \/ ~W0.state.container THEN W0
  ELSE IF albumArtUrl = 0 \/ albumArtUrl = W0.state.currentImageUrl THEN W0
  ELSE IF W0.state.isTransitioning
       THEN [W0 EXCEPT !.state.pendingImageUrl = albumArtUrl]
       ELSE processImageTransition_key(W0, albumArtUrl)

\* processImageTransition after its await
processImageTransition_settled(W, loaded) ==
  IF loaded
  THEN [W EXCEPT !.state.currentImageUrl = W.loading,
                 !.state.transitionTimeoutId = "armed",
                 !.timer = TRUE, !.loading = 0]
  ELSE [W EXCEPT !.state.isTransitioning = FALSE, !.loading = 0]

\* the callback of the transition timeout
transitionTimeout_key(W) ==
  LET W0 == [W EXCEPT !.state.isTransitioning = FALSE,
                      !.state.transitionTimeoutId = "null", !.timer = FALSE]
  IN IF W0.state.pendingImageUrl # 0
        /\ W0.state.pendingImageUrl # W0.state.currentImageUrl
     THEN processImageTransition_key([W0 EXCEPT !.state.pendingImageUrl = 0],
                                     W0.state.pendingImageUrl)
     ELSE W0

\* updateKawarpSpeed(settings, multipliers, location)
updateKawarpSpeed_key(W, multipliers) ==
  LET W0 == getState(W)
      speedChanged == W0.state.lastMultipliers.speedMultiplier # multipliers.speedMultiplier
      scaleChanged == W0.state.lastMultipliers.scaleMultiplier # multipliers.scaleMultiplier
  IN IF ~W0.state.instance \/ ~W0.state.container THEN W0
     ELSE IF ~speedChanged /\ ~scaleChanged THEN W0
     ELSE [W0 EXCEPT
             !.state.targetScale = IF scaleChanged THEN multipliers.scaleMultiplier ELSE @,
             !.state.scaleAnimationId = IF scaleChanged THEN TRUE ELSE @,
             !.scaleFrame = IF scaleChanged THEN TRUE ELSE @,
             !.state.lastMultipliers = multipliers]

\* animateScale(state), the callback of the scale animation frame
animateScale(W) ==
  LET state == W.state
      diff == state.targetScale - state.currentScale
  IN IF ~state.instance
     THEN [W EXCEPT !.state.scaleAnimationId = FALSE, !.scaleFrame = FALSE]
     ELSE IF diff = 0
     THEN [W EXCEPT !.state.currentScale = state.targetScale,
                    !.state.scaleAnimationId = FALSE, !.scaleFrame = FALSE]
     ELSE [W EXCEPT !.state.currentScale =
                       @ + Lerp(diff, IF diff > 0 THEN SCALE_LERP_UP ELSE SCALE_LERP_DOWN),
                    !.state.scaleAnimationId = TRUE, !.scaleFrame = TRUE]

\* animateSpeed(state), the callback of the speed animation frame
animateSpeed(W) ==
  LET state == W.state
      diff == state.targetSpeed - state.currentSpeed
  IN IF ~state.instance
     THEN [W EXCEPT !.state.speedAnimationId = FALSE, !.speedFrame = FALSE]
     ELSE IF diff = 0
     THEN [W EXCEPT !.state.currentSpeed = state.targetSpeed,
                    !.state.speedAnimationId = FALSE, !.speedFrame = FALSE,
                    !.running = IF state.targetSpeed = 0 THEN FALSE ELSE @]
     ELSE [W EXCEPT !.state.currentSpeed =
                       @ + Lerp(diff, IF diff > 0 THEN SPEED_LERP_UP ELSE SPEED_LERP_DOWN),
                    !.state.speedAnimationId = TRUE, !.speedFrame = TRUE]

\* pauseKawarp(location)
pauseKawarp(W) ==
  LET W0 == getState(W) IN
  IF ~W0.state.instance \/ W0.state.isPaused THEN W0
  ELSE [W0 EXCEPT !.state.isPaused = TRUE, !.state.targetSpeed = 0,
                  !.state.speedAnimationId = TRUE, !.speedFrame = TRUE]

\* resumeKawarp(location)
resumeKawarp(W) ==
  LET W0 == getState(W) IN
  IF ~W0.state.instance \/ ~W0.state.isVisible \/ ~W0.state.isPaused THEN W0
  ELSE [W0 EXCEPT !.state.isPaused = FALSE, !.running = TRUE,
                  !.state.targetSpeed =
                     DEFAULT_kawarpAnimationSpeed
                        * W0.state.lastMultipliers.speedMultiplier,
                  !.state.speedAnimationId = TRUE, !.speedFrame = TRUE]

\* the callback of the IntersectionObserver of createKawarp
intersection_key(W, isVisible) ==
  IF W.state.isVisible = isVisible THEN W
  ELSE [W EXCEPT !.state.isVisible = isVisible,
                 !.running = IF W.state.instance THEN isVisible ELSE @]

\* createKawarp's fade-in: the 300 ms timer requests a frame, the frame sets
\* the opacity of the container and the backdrop the record has, if any
fadeIn_key(W) == [W EXCEPT !.fadeIn = FALSE]

\* createShader from `const state = getShaderState(location)` to its return,
\* the target being ready
createShader_key(W, colors, multipliers) ==
  LET W0 == getState(W) IN
  IF W0.state.mount
  THEN [destroyShader_key(W0) EXCEPT !.leaked = @ + 1]
  ELSE [W0 EXCEPT
          !.state = [@ EXCEPT !.container = TRUE, !.colors = colors,
                              !.colorVectors = colors, !.lastSettings = 1,
                              !.lastMultipliers = multipliers, !.mount = TRUE,
                              !.observer = TRUE],
          !.attached = TRUE, !.live = TRUE, !.observing = TRUE,
          !.fadeIn = TRUE]

\* updateShaderColors(colors, settings, multipliers, location)
updateShaderColors_key(W, colors, multipliers) ==
  LET W0 == getState(W) IN
  IF ~W0.state.mount \/ ~W0.state.container THEN W0
  ELSE [W0 EXCEPT !.state.colors = colors, !.state.colorVectors = colors,
                  !.state.lastSettings = 1, !.state.lastMultipliers = multipliers]

\* the callback of the IntersectionObserver of createShader
intersection_shader(W, isVisible) ==
  [W EXCEPT !.state.isVisible = isVisible]

\* the animation frame of createShader's fade-in sets the opacity of the
\* container the record has, if any
fadeIn_shader(W) == [W EXCEPT !.fadeIn = FALSE]

\* nothing of the key is left in the page or the event loop
Released(W) ==
  /\ ~W.live /\ ~W.running /\ ~W.attached /\ ~W.observing
  /\ ~W.timer /\ ~W.scaleFrame /\ ~W.speedFrame /\ W.loading = 0

Released_shader(W) == ~W.live /\ ~W.attached /\ ~W.observing

\* a paused kawarp surface in a transition with a queued image and both
\* animations running
Busy(W) ==
  /\ W.state.isPaused /\ W.state.pendingImageUrl # 0 /\ W.timer
  /\ W.scaleFrame /\ W.speedFrame /\ W.state.currentScale # 100

\* a hidden mesh surface before its fade-in
Busy_shader(W) == ~W.state.isVisible /\ W.fadeIn

\* The page shows one variant: a key gets a surface of one manager while
\* the other manager holds nothing for it.
KawarpTurn == Released_shader(perKey.shader) /\ ~perKey.shader.fadeIn

ShaderTurn == Released(perKey.kawarp) /\ ~perKey.kawarp.fadeIn

Created ==
  perKey.kawarp.disposed + perKey.kawarp.leaked + (IF perKey.kawarp.live THEN 1 ELSE 0)
  + perKey.shader.disposed + perKey.shader.leaked + (IF perKey.shader.live THEN 1 ELSE 0)

DestroyCreateKawarp(multipliers, albumArtUrl, loaded) ==
  /\ Created < MaxCreates
  /\ KawarpTurn
  /\ perKey' = [perKey EXCEPT !.kawarp = createKawarp_key(perKey.kawarp, multipliers, albumArtUrl, loaded)]
  /\ UNCHANGED destroyIdleVars

DestroyUpdateKawarpImage(albumArtUrl) ==
  /\ KawarpTurn
  /\ perKey' = [perKey EXCEPT !.kawarp = updateKawarpImage_key(perKey.kawarp, albumArtUrl)]
  /\ UNCHANGED destroyIdleVars

DestroyImageSettles(loaded) ==
  /\ perKey.kawarp.loading # 0
  /\ KawarpTurn
  /\ perKey' = [perKey EXCEPT !.kawarp = processImageTransition_settled(perKey.kawarp, loaded)]
  /\ UNCHANGED destroyIdleVars

DestroyTransitionTimeout ==
  /\ perKey.kawarp.timer
  /\ KawarpTurn
  /\ perKey' = [perKey EXCEPT !.kawarp = transitionTimeout_key(perKey.kawarp)]
  /\ UNCHANGED destroyIdleVars

DestroyUpdateKawarpSpeed(multipliers) ==
  /\ KawarpTurn
  /\ perKey' = [perKey EXCEPT !.kawarp = updateKawarpSpeed_key(perKey.kawarp, multipliers)]
  /\ UNCHANGED destroyIdleVars

AnimateScale ==
  /\ perKey.kawarp.scaleFrame
  /\ KawarpTurn
  /\ perKey' = [perKey EXCEPT !.kawarp = animateScale(perKey.kawarp)]
  /\ UNCHANGED destroyIdleVars

AnimateSpeed ==
  /\ perKey.kawarp.speedFrame
  /\ KawarpTurn
  /\ perKey' = [perKey EXCEPT !.kawarp = animateSpeed(perKey.kawarp)]
  /\ UNCHANGED destroyIdleVars

PauseKawarp ==
  /\ KawarpTurn
  /\ perKey' = [perKey EXCEPT !.kawarp = pauseKawarp(perKey.kawarp)]
  /\ UNCHANGED destroyIdleVars

ResumeKawarp ==
  /\ KawarpTurn
  /\ perKey' = [perKey EXCEPT !.kawarp = resumeKawarp(perKey.kawarp)]
  /\ UNCHANGED destroyIdleVars

KawarpIntersection(isVisible) ==
  /\ perKey.kawarp.observing
  /\ KawarpTurn
  /\ perKey' = [perKey EXCEPT !.kawarp = intersection_key(perKey.kawarp, isVisible)]
  /\ UNCHANGED destroyIdleVars

KawarpFadeIn ==
  /\ perKey.kawarp.fadeIn
  /\ KawarpTurn
  /\ perKey' = [perKey EXCEPT !.kawarp = fadeIn_key(perKey.kawarp)]
  /\ UNCHANGED destroyIdleVars

DestroyKawarp ==
  /\ KawarpTurn
  /\ perKey' = [perKey EXCEPT !.kawarp = destroyKawarp_key(@),
                              !.found.kawarp =
                                 IF ~perKey.kawarp.live THEN "none"
                                 ELSE IF Busy(perKey.kawarp) THEN "busy" ELSE "idle"]
  /\ UNCHANGED destroyIdleVars

DestroyCreateShader(colors, multipliers) ==
  /\ Created < MaxCreates
  /\ ShaderTurn
  /\ perKey' = [perKey EXCEPT !.shader = createShader_key(perKey.shader, colors, multipliers)]
  /\ UNCHANGED destroyIdleVars

DestroyUpdateShaderColors(colors, multipliers) ==
  /\ ShaderTurn
  /\ perKey' = [perKey EXCEPT !.shader = updateShaderColors_key(perKey.shader, colors, multipliers)]
  /\ UNCHANGED destroyIdleVars

ShaderIntersection(isVisible) ==
  /\ perKey.shader.observing
  /\ ShaderTurn
  /\ perKey' = [perKey EXCEPT !.shader = intersection_shader(perKey.shader, isVisible)]
  /\ UNCHANGED destroyIdleVars

ShaderFadeIn ==
  /\ perKey.shader.fadeIn
  /\ ShaderTurn
  /\ perKey' = [perKey EXCEPT !.shader = fadeIn_shader(perKey.shader)]
  /\ UNCHANGED destroyIdleVars

DestroyShader ==
  /\ ShaderTurn
  /\ perKey' = [perKey EXCEPT !.shader = destroyShader_key(@),
                              !.found.shader =
                                 IF ~perKey.shader.live THEN "none"
                                 ELSE IF Busy_shader(perKey.shader) THEN "busy" ELSE "idle"]
  /\ UNCHANGED destroyIdleVars

NextDestroy ==
  \/ \E m \in KeyMultipliers, albumArtUrl \in 0..1, loaded \in BOOLEAN :
       DestroyCreateKawarp(m, albumArtUrl, loaded)
  \/ \E albumArtUrl \in 0..MaxArt : DestroyUpdateKawarpImage(albumArtUrl)
  \/ \E loaded \in BOOLEAN : DestroyImageSettles(loaded)
  \/ DestroyTransitionTimeout
  \/ \E m \in KeyMultipliers : DestroyUpdateKawarpSpeed(m)
  \/ AnimateScale
  \/ AnimateSpeed
  \/ PauseKawarp
  \/ ResumeKawarp
  \/ \E isVisible \in BOOLEAN : KawarpIntersection(isVisible)
  \/ KawarpFadeIn
  \/ DestroyKawarp
  \/ \E colors \in 1..MaxPalettes, m \in KeyMultipliers : DestroyCreateShader(colors, m)
  \/ \E colors \in 1..MaxPalettes, m \in KeyMultipliers : DestroyUpdateShaderColors(colors, m)
  \/ \E isVisible \in BOOLEAN : ShaderIntersection(isVisible)
  \/ ShaderFadeIn
  \/ DestroyShader

InitSpecDestroy ==
  /\ InitCtl([DEFAULT_GRADIENT_SETTINGS EXCEPT !.audioResponsive = FALSE])
  /\ audioInit = TRUE
  /\ InitSave

SpecDestroy == InitSpecDestroy /\ [][NextDestroy]_vars

\* what a caller or the page can tell of a key: all but whether the map
\* holds an (empty) record for it
Observable(W) == [W EXCEPT !.has = FALSE]

MAX_CACHE_SIZE == 10

\* Math.round(n / d), d > 0
Round(n, d) == (2 * n + d) \div (2 * d)

Max3(a, b, c) ==
  IF a >= b /\ a >= c THEN a ELSE IF b >= c THEN b ELSE c

Min3(a, b, c) ==
  IF a <= b /\ a <= c THEN a ELSE IF b <= c THEN b ELSE c

\* rgbToHsl(red, green, blue), channels 0..255
rgbToHsl(red, green, blue) ==
  LET max == Max3(red, green, blue)
      min == Min3(red, green, blue)
      d == max - min
      \* s = l > 0.5 ? d / (2 - max - min) : d / (max + min), channels / 255
      div == IF max + min > 255 THEN 510 - max - min ELSE max + min
      \* h * d, before h /= 6
      hd == IF max = red THEN (green - blue) + (IF green < blue THEN 6 * d ELSE 0)
            ELSE IF max = green THEN (blue - red) + 2 * d
            ELSE (red - green) + 4 * d
  IN IF max = min
     THEN [hue |-> <<0, 1>>, saturation |-> 0, lightness |-> Round(100 * (max + min), 510)]
     ELSE [hue |-> <<Round(60 * hd, d), 1>>,
           saturation |-> Round(100 * d, div),
           lightness |-> Round(100 * (max + min), 510)]

RECURSIVE SumHue(_, _)
SumHue(hslColors, n) ==
  IF n = 0 THEN 0
  ELSE SumHue(hslColors, n - 1)
         + (IF hslColors[n].saturation > 5 THEN hslColors[n].hue[1] ELSE 0)

\* Math.round(Math.min(saturation * multiplier + addition, cap)) with
\* multiplier = 1 + intensity * 0.5, addition = intensity * 0.4,
\* intensity = boostIntensity / 100, in thousandths before rounding
boostedSaturation(saturation, boostIntensity) ==
  LET raw == 1000 * saturation + 5 * saturation * boostIntensity + 4 * boostIntensity
  IN Round(IF raw < 70000 THEN raw ELSE 70000, 1000)

\* boostDullColorSaturation that boosts whatever the vibrant ratio is
boostDullColorSaturation_always(hslColors, settings) ==
  LET n == Len(hslColors)
      nonGrayscale == Cardinality({i \in 1..n : hslColors[i].saturation > 5})
      avgHue == IF nonGrayscale > 0 THEN <<SumHue(hslColors, n), nonGrayscale>> ELSE <<0, 1>>
  IN [i \in 1..n |->
        LET color == hslColors[i] IN
        IF color.saturation < 40
        THEN [hue |-> IF color.saturation < 5 THEN avgHue ELSE color.hue,
              saturation |-> boostedSaturation(color.saturation, settings.boostIntensity),
              lightness |-> color.lightness]
        ELSE color]

\* boostDullColorSaturation(hslColors, settings)
boostDullColorSaturation(hslColors, settings) ==
  LET n == Len(hslColors)
      vibrantColors == Cardinality({i \in 1..n :
                          hslColors[i].saturation >= settings.vibrantSaturationThreshold})
      \* vibrantRatio > ratioThreshold, both sides times 100 * n
      vibrant == vibrantColors * 100 > settings.vibrantRatioThreshold * n
      nonGrayscale == Cardinality({i \in 1..n : hslColors[i].saturation > 5})
      avgHue == IF nonGrayscale > 0 THEN <<SumHue(hslColors, n), nonGrayscale>> ELSE <<0, 1>>
  IN IF vibrant THEN hslColors
     ELSE [i \in 1..n |->
             LET color == hslColors[i] IN
             IF color.saturation < 40
             THEN [hue |-> IF color.saturation < 5 THEN avgHue ELSE color.hue,
                   saturation |-> boostedSaturation(color.saturation, settings.boostIntensity),
                   lightness |-> color.lightness]
             ELSE color]

\* `hsl(${Math.round(hue)}, ${Math.round(saturation)}%, ${Math.round(lightness)}%)`
\* as the three numbers of the string
FormatHsl(color) == <<Round(color.hue[1], color.hue[2]), color.saturation, color.lightness>>

(***************************************************************************)
(* SpecExtract: extractColorsFromImage calls, which may overlap, with the  *)
(* fetch, the proxy image and ColorThief settling in any way, and          *)
(* clearColorCache.                                                        *)
(***************************************************************************)
MaxExtracts == 2       \* extractColorsFromImage calls

\* img.src: a data URI placeholder and two album covers
Srcs == {"data:", "cover1", "cover2"}

\* settings?.vibrantSaturationThreshold, vibrantRatioThreshold, boostIntensity
BoostSettings ==
  {[vibrantSaturationThreshold |-> 30, vibrantRatioThreshold |-> 50, boostIntensity |-> 50],
   [vibrantSaturationThreshold |-> 30, vibrantRatioThreshold |-> 50, boostIntensity |-> 100]}

\* what colorThief.getColor and getPalette find in a cover
PrimaryOf(src) == IF src = "cover1" THEN <<120, 110, 100>> ELSE <<200, 40, 40>>
PaletteOf(src) ==
  IF src = "cover1" THEN << <<128, 128, 128>>, <<90, 100, 110>> >>
  ELSE << <<220, 60, 20>>, <<30, 60, 200>> >>

\* The ways the proxy image and ColorThief come out: the image is loaded
\* incompletely or is smaller than 3x3; ColorThief throws, returns null,
\* returns something that is no array or a primary colour of two
\* components, a palette without a valid entry, a palette of which one
\* entry is invalid, or a palette of valid entries.
LoadOutcomes ==
  {"incomplete", "small", "throws", "null", "notArray", "shortPrimary", "noValid",
   "someInvalid", "good"}

\* colorThief.getPalette / getColor: kind "null", "object" or "array"
getPalette(outcome, src) ==
  CASE outcome = "null" -> [kind |-> "null", items |-> <<>>]
    [] outcome = "notArray" -> [kind |-> "object", items |-> <<>>]
    [] outcome = "noValid" -> [kind |-> "array", items |-> << <<>>, <<7, 7>> >>]
    [] outcome = "someInvalid" -> [kind |-> "array", items |-> <<PaletteOf(src)[1], <<>> >>]
    [] OTHER -> [kind |-> "array", items |-> PaletteOf(src)]

getColor(outcome, src) ==
  IF outcome = "shortPrimary"
  THEN [kind |-> "array", items |-> <<PrimaryOf(src)[1], PrimaryOf(src)[2]>>]
  ELSE [kind |-> "array", items |-> PrimaryOf(src)]

IsValidColor(c) == Len(c) >= 3

\* `${img.src}_${boostDullColors}_${...}_${...}_${...}`
cacheKey(src, boostDullColors, settings) ==
  <<src, boostDullColors, settings.vibrantSaturationThreshold,
    settings.vibrantRatioThreshold, settings.boostIntensity>>

cacheHas(cache, key) == \E i \in 1..Len(cache) : cache[i].key = key

cacheGet(cache, key) == cache[CHOOSE i \in 1..Len(cache) : cache[i].key = key].value

\* manageCacheSize(), then imageCache.set(cacheKey, colorsHsl)
cacheSet(cache, key, value) ==
  LET managed == IF Len(cache) > MAX_CACHE_SIZE THEN Tail(cache) ELSE cache
  IN IF cacheHas(managed, key)
     THEN [i \in 1..Len(managed) |->
             IF managed[i].key = key THEN [key |-> key, value |-> value] ELSE managed[i]]
     ELSE Append(managed, [key |-> key, value |-> value])

\* proxyImg.onload from `colors = colorThief.getPalette(proxyImg, 4, 1)`:
\* what it resolves the promise with, whether it called ColorThief and
\* whether it stores the palette in the cache
onload_quantize(outcome, src, boostDullColors, settings) ==
  LET colors == getPalette(outcome, src)
      primaryColor == getColor(outcome, src)
      validColors == SelectSeq(colors.items, IsValidColor)
      colorsWithPrimary == <<primaryColor.items>> \o validColors
      colorsHslObjects ==
        [i \in 1..Len(colorsWithPrimary) |->
           rgbToHsl(colorsWithPrimary[i][1], colorsWithPrimary[i][2], colorsWithPrimary[i][3])]
      boostedObjects ==
        IF boostDullColors THEN boostDullColorSaturation(colorsHslObjects, settings)
        ELSE colorsHslObjects
      empty == [colorsHsl |-> <<>>, quantized |-> TRUE, store |-> FALSE]
  IN IF outcome = "throws" THEN empty
     ELSE IF colors.kind = "null" \/ primaryColor.kind = "null" THEN empty
     ELSE IF colors.kind # "array" \/ primaryColor.kind # "array"
             \/ Len(primaryColor.items) < 3 THEN empty
     ELSE IF Len(validColors) = 0 THEN empty
     ELSE [colorsHsl |-> [i \in 1..Len(boostedObjects) |-> FormatHsl(boostedObjects[i])],
           quantized |-> TRUE, store |-> TRUE]

\* proxyImg.onload without the tests of the image
onload_noSizeCheck(outcome, src, boostDullColors, settings) ==
  onload_quantize(IF outcome \in {"incomplete", "small"} THEN "good" ELSE outcome,
                  src, boostDullColors, settings)

\* proxyImg.onload
onload(outcome, src, boostDullColors, settings) ==
  IF outcome \in {"incomplete", "small"}
  THEN [colorsHsl |-> <<>>, quantized |-> FALSE, store |-> FALSE]
  ELSE onload_quantize(outcome, src, boostDullColors, settings)

\* what an extractColorsFromImage call does not write
extractIdleVars ==
  <<ctlVars, saveVars, loads, everManual, logVars, frameVars, kawarpVars, applied,
    targetWaits, perKey, boosted,
    storageVars, retryVars, artVars, easeVars, cacheVars, meshVars, navVars>>

\* A call.  phase: "fetch" (awaits fetch and blob), "load" (the proxy image
\* loads), "done"; cause: how it ended; result: what its promise resolved
\* with; quantized: it called ColorThief; stored: it wrote the cache;
\* cleared: clearColorCache ran after the call began
Extraction(src, boostDullColors, settings) ==
  [src |-> src, boostDullColors |-> boostDullColors, settings |-> settings,
   phase |-> "fetch", cause |-> "-", result |-> <<>>, quantized |-> FALSE,
   stored |-> FALSE, cleared |-> FALSE]

KeyOfCall(c) == cacheKey(c.src, c.boostDullColors, c.settings)

\* extractColorsFromImage(img, boostDullColors, settings) up to `await fetch`
ExtractColorsFromImage(src, boostDullColors, settings) ==
  LET c == Extraction(src, boostDullColors, settings) IN
  /\ Len(extracts) < MaxExtracts
  /\ extracts' =
       Append(extracts,
         IF cacheHas(imageCache, KeyOfCall(c))
         THEN [c EXCEPT !.phase = "done", !.cause = "cached",
                        !.result = cacheGet(imageCache, KeyOfCall(c))]
         ELSE IF src = "data:"
         THEN [c EXCEPT !.phase = "done", !.cause = "dataUri"]
         ELSE c)
  /\ UNCHANGED <<imageCache, extractIdleVars>>

\* fetch(img.src) and response.blob() settle
FetchSettles(i, ok) ==
  /\ i <= Len(extracts)
  /\ extracts[i].phase = "fetch"
  /\ extracts' =
       [extracts EXCEPT ![i] =
          IF ok THEN [@ EXCEPT !.phase = "load"]
          ELSE [@ EXCEPT !.phase = "done", !.cause = "fetchError"]]
  /\ UNCHANGED <<imageCache, extractIdleVars>>

\* proxyImg.onerror
ProxyImageError(i) ==
  /\ i <= Len(extracts)
  /\ extracts[i].phase = "load"
  /\ extracts' = [extracts EXCEPT ![i] = [@ EXCEPT !.phase = "done", !.cause = "decodeError"]]
  /\ UNCHANGED <<imageCache, extractIdleVars>>

\* proxyImg.onload
ProxyImageLoad(i, outcome) ==
  /\ i <= Len(extracts)
  /\ extracts[i].phase = "load"
  /\ LET c == extracts[i]
         r == onload(outcome, c.src, c.boostDullColors, c.settings)
     IN /\ extracts' =
             [extracts EXCEPT ![i] =
                [@ EXCEPT !.phase = "done", !.cause = outcome, !.result = r.colorsHsl,
                          !.quantized = r.quantized, !.stored = r.store]]
        /\ imageCache' =
             IF r.store THEN cacheSet(imageCache, KeyOfCall(c), r.colorsHsl)
             ELSE imageCache
  /\ UNCHANGED extractIdleVars

\* clearColorCache()
ClearColorCache ==
  /\ imageCache # <<>>
  /\ imageCache' = <<>>
  /\ extracts' = [i \in 1..Len(extracts) |-> [extracts[i] EXCEPT !.cleared = TRUE]]
  /\ UNCHANGED extractIdleVars

NextExtract ==
  \/ \E src \in Srcs, boostDullColors \in BOOLEAN, settings \in BoostSettings :
       ExtractColorsFromImage(src, boostDullColors, settings)
  \/ \E i \in 1..MaxExtracts, ok \in BOOLEAN : FetchSettles(i, ok)
  \/ \E i \in 1..MaxExtracts : ProxyImageError(i)
  \/ \E i \in 1..MaxExtracts, outcome \in LoadOutcomes : ProxyImageLoad(i, outcome)
  \/ ClearColorCache

InitSpecExtract ==
  /\ InitCtl([DEFAULT_GRADIENT_SETTINGS EXCEPT !.audioResponsive = FALSE])
  /\ audioInit = TRUE
  /\ InitSave

SpecExtract == InitSpecExtract /\ [][NextExtract]_vars

\* C24: two extractColorsFromImage calls with the same image source and
\* boost parameters, the cache not being cleared after the first began,
\* resolve with the same palette, and the second does not call ColorThief.
C24_SecondCallFromCache ==
  \A i \in 1..Len(extracts), j \in 1..Len(extracts) :
    (/\ i < j
     /\ KeyOfCall(extracts[i]) = KeyOfCall(extracts[j])
     /\ extracts[i].phase = "done" /\ extracts[j].phase = "done"
     /\ ~extracts[i].cleared)
    => /\ extracts[j].result = extracts[i].result
       /\ ~extracts[j].quantized

\* how a call ends without a palette
FailureCauses ==
  {"dataUri", "small", "incomplete", "fetchError", "decodeError", "throws", "null",
   "notArray", "shortPrimary", "noValid"}

\* C25 as stated: a call for a data URI, an image smaller than 3x3, a fetch
\* or decode error, a ColorThief failure or any malformed ColorThief result
\* resolves with the empty list and stores nothing in the cache.
C25_FailuresResolveEmpty ==
  \A i \in 1..Len(extracts) :
    (extracts[i].phase = "done" /\ extracts[i].cause \in FailureCauses \cup {"someInvalid"})
    => extracts[i].result = <<>> /\ ~extracts[i].stored

\* C25: a call for a data URI, an image smaller than 3x3, a fetch or decode
\* error, a ColorThief failure or a ColorThief result without a usable
\* primary colour or without any valid palette entry resolves with the
\* empty list and stores nothing, the cache being as it was; of a
\* palette with an invalid entry the valid colours are returned and stored.
C25_UnusableResolvesEmpty ==
  /\ \A i \in 1..Len(extracts) :
       /\ (extracts[i].phase = "done" /\ extracts[i].cause \in FailureCauses)
            => extracts[i].result = <<>> /\ ~extracts[i].stored
       /\ (extracts[i].phase = "done" /\ extracts[i].cause = "someInvalid")
            => Len(extracts[i].result) = 2 /\ extracts[i].stored
  /\ [][\A i \in 1..MaxExtracts :
          (/\ i <= Len(extracts') /\ extracts'[i].phase = "done"
           /\ extracts'[i].cause \in FailureCauses
           /\ (i > Len(extracts) \/ extracts[i].phase # "done"))
          => imageCache' = imageCache]_vars

\* a call for an image smaller than 3x3 and a call ColorThief threw in
C25_Witness ==
  /\ Len(extracts) = 2
  /\ extracts[1].cause = "small" /\ extracts[1].result = <<>>
  /\ extracts[2].cause = "throws" /\ extracts[2].result = <<>>
  /\ imageCache = <<>>

(***************************************************************************)
(* SpecBoost: boostDullColorSaturation on palettes of up to MaxColors      *)
(* colours.                                                                *)
(***************************************************************************)
MaxColors == 3         \* colours of a palette

\* colours of saturation 0, 5, 6, 39, 40 and 80, each of a hue of its own
HslColors ==
  {[hue |-> <<0, 1>>, saturation |-> 0, lightness |-> 50],
   [hue |-> <<200, 1>>, saturation |-> 5, lightness |-> 40],
   [hue |-> <<100, 1>>, saturation |-> 6, lightness |-> 30],
   [hue |-> <<31, 1>>, saturation |-> 39, lightness |-> 60],
   [hue |-> <<300, 1>>, saturation |-> 40, lightness |-> 70],
   [hue |-> <<10, 1>>, saturation |-> 80, lightness |-> 50]}

HslPalettes == UNION {[1..n -> HslColors] : n \in 1..MaxColors}

\* the boost knobs: the defaults, a ratio threshold of 100 and an intensity
\* of 200
BoostKnobs ==
  {[vibrantSaturationThreshold |-> 30, vibrantRatioThreshold |-> r, boostIntensity |-> b] :
     r \in {50, 100}, b \in {50, 200}}

boostIdleVars ==
  <<ctlVars, saveVars, loads, everManual, logVars, frameVars, kawarpVars, applied,
    targetWaits, perKey, imageCache, extracts,
    storageVars, retryVars, artVars, easeVars, cacheVars, meshVars, navVars>>

\* the one call of a run
BoostDullColorSaturation(hslColors, settings) ==
  /\ boosted = NoBoost
  /\ boosted' = [hslColors |-> hslColors, settings |-> settings,
                 out |-> boostDullColorSaturation(hslColors, settings)]
  /\ UNCHANGED boostIdleVars

NextBoost ==
  \E hslColors \in HslPalettes, settings \in BoostKnobs :
    BoostDullColorSaturation(hslColors, settings)

InitSpecBoost ==
  /\ InitCtl([DEFAULT_GRADIENT_SETTINGS EXCEPT !.audioResponsive = FALSE])
  /\ audioInit = TRUE
  /\ InitSave

SpecBoost == InitSpecBoost /\ [][NextBoost]_vars

\* the colours of the latest call with a saturation of at least the
\* vibrant threshold
VibrantColors ==
  Cardinality({i \in 1..Len(boosted.hslColors) :
     boosted.hslColors[i].saturation >= boosted.settings.vibrantSaturationThreshold})

\* the call was made and the fraction of vibrant colours is above
\* vibrantRatioThreshold / 100
AboveRatio ==
  /\ boosted # NoBoost
  /\ 100 * VibrantColors > boosted.settings.vibrantRatioThreshold * Len(boosted.hslColors)

\* the call was made and the fraction is equal to or below the threshold
NotAboveRatio ==
  /\ boosted # NoBoost
  /\ 100 * VibrantColors <= boosted.settings.vibrantRatioThreshold * Len(boosted.hslColors)

\* min(s * (1 + i * 0.5) + i * 0.4, 70) with i = boostIntensity / 100, rounded
BoostFormula(s, boostIntensity) ==
  LET thousandths == s * (1000 + 5 * boostIntensity) + 4 * boostIntensity
  IN ((IF thousandths > 70000 THEN 70000 ELSE thousandths) + 500) \div 1000

\* C26: boostDullColorSaturation returns its input unchanged when the
\* fraction of colours of a saturation of at least vibrantSaturationThreshold
\* is strictly greater than vibrantRatioThreshold / 100; when the fraction is
\* equal to or below it, the colours of a saturation below 40 are boosted.
C26_BoostIffNotVibrant ==
  /\ AboveRatio => boosted.out = boosted.hslColors
  /\ NotAboveRatio =>
       \A i \in 1..Len(boosted.hslColors) :
         boosted.hslColors[i].saturation < 40 =>
           boosted.out[i].saturation =
             BoostFormula(boosted.hslColors[i].saturation, boosted.settings.boostIntensity)

\* two of three colours are vibrant, the third is dull: nothing is boosted
C26_Witness ==
  /\ AboveRatio
  /\ Len(boosted.hslColors) = 3 /\ VibrantColors = 2
  /\ \E i \in 1..3 : boosted.hslColors[i].saturation = 39
  /\ boosted.settings.vibrantRatioThreshold = 50
  /\ boosted.out = boosted.hslColors

\* the fraction h[1] / h[2] is the average hue of the colours of a
\* saturation above 5, 0 if there is none
IsAverageHue(h) ==
  LET n == Len(boosted.hslColors)
      nonGrayscale == Cardinality({i \in 1..n : boosted.hslColors[i].saturation > 5})
  IN IF nonGrayscale = 0 THEN h[1] = 0
     ELSE h[1] * nonGrayscale = SumHue(boosted.hslColors, n) * h[2]

\* C27: when the boost applies, a colour of a saturation s below 40 gets
\* min(s * (1 + i * 0.5) + i * 0.4, 70) and never more than 70, a colour of
\* a saturation of 40 or more is unchanged, and a colour of a saturation of
\* 5 or less gets the average hue of the colours above 5.
C27_BoostValues ==
  NotAboveRatio =>
    \A i \in 1..Len(boosted.hslColors) :
      LET in == boosted.hslColors[i]
          out == boosted.out[i]
      IN /\ in.saturation < 40 =>
              /\ out.saturation = BoostFormula(in.saturation, boosted.settings.boostIntensity)
              /\ out.saturation <= 70
         /\ in.saturation >= 40 => out = in
         /\ in.saturation <= 5 => IsAverageHue(out.hue)

(***************************************************************************)
(* SpecStartup: the controller from its start with rememberAlbumSettings   *)
(* on and an empty album store, in either variant, with the page and the   *)
(* timers but without messages from the popup.                             *)
(***************************************************************************)
InitSpecStartup ==
  /\ \E variant \in ShaderTypes :
       InitCtl([DEFAULT_GRADIENT_SETTINGS EXCEPT
                  !.enabled = TRUE, !.shaderType = variant, !.audioResponsive = FALSE,
                  !.rememberAlbumSettings = TRUE])
  /\ audioInit = TRUE
  /\ InitSave

NextStartup ==
  \/ \E t \in Tasks : DebounceFire(t)
  \/ \E t \in Tasks : TargetReady(t)
  \/ \E t \in Tasks : WaitTimeout(t)
  \/ \E t \in Tasks : CreateShaderResume(t)
  \/ \E t \in Tasks : CreateKawarpResume(t)
  \/ \E t \in Tasks, loaded \in BOOLEAN : ImageLoaded(t, loaded)
  \/ \E t \in Tasks : Extracted(t)
  \/ \E t \in Tasks : AlbumLoaded(t)
  \/ \E d \in Pages : PageChange(d)
  \/ TimerFire
  \/ \E i \in 1..MaxReq : saveAlbumColors_get(i)
  \/ \E i \in 1..MaxReq : saveAlbumColors_set(i)
  \/ Tick

SpecStartup == InitSpecStartup /\ [][NextStartup]_vars

\* nothing is in flight and no timer is pending, and the player surface of
\* the kawarp variant was created once: it is live and no other instance
\* was built for it
SettledWithKawarp ==
  /\ gradientSettings.shaderType = "kawarp"
  /\ Settled /\ ~navTimer /\ Quiescent
  /\ kawarps["player"].instance
  /\ leakedInstances["player"] = NoLeak
  /\ \A t \in Tasks : ~orphInst[t]

\* C28: started with enabled, the kawarp variant, rememberAlbumSettings on
\* and an empty album store, the system that has settled with its one
\* player surface created has exactly one album record stored.
C28_OneCreateOneRecord ==
  SettledWithKawarp => Len(store) = 1

(***************************************************************************)
(* SpecFailure: the four functions of storage.ts over a persistent store   *)
(* whose get and set either complete or reject.  The album functions are   *)
(* those of SpecStore; each of their suspension points gets the rejected   *)
(* outcome next to the completed one.                                      *)
(***************************************************************************)
FailAlbums == {1, 3}
FailUrls == [album : FailAlbums, query : {0}]
SavedSettings ==
  {DEFAULT_GRADIENT_SETTINGS,
   [DEFAULT_GRADIENT_SETTINGS EXCEPT !.enabled = FALSE, !.showOnBrowsePages = TRUE]}

failureIdleVars ==
  <<ctlVars, albumSaveDebounceTimer, reqLog, writeLog, everManual, logVars, frameVars,
    kawarpVars, applied, targetWaits, perKey, colorVars, retryVars, artVars, easeVars, cacheVars, meshVars, navVars>>

\* the calls other than the i-th
Without(calls, i) == SubSeq(calls, 1, i - 1) \o SubSeq(calls, i + 1, Len(calls))

\* loadGradientSettings, lines 61-69: the stored value over the defaults; the
\* key showOnBrowsePages falls back to the former showOnHomepage
migrated(storedSettings) ==
  [k \in DOMAIN DEFAULT_GRADIENT_SETTINGS |->
     IF k \in DOMAIN storedSettings THEN storedSettings[k]
     ELSE IF k = "showOnBrowsePages" /\ "showOnHomepage" \in DOMAIN storedSettings
       THEN storedSettings["showOnHomepage"]
     ELSE DEFAULT_GRADIENT_SETTINGS[k]]

\* loadGradientSettings when `storage.get` completes with storedSettings
loadGradientSettings(storedSettings) ==
  IF storedSettings = NoStoredSettings THEN DEFAULT_GRADIENT_SETTINGS
  ELSE migrated(storedSettings)

\* what a call gave back; settings: the value of a loadGradientSettings call
Outcome(fn, req, rejected, value, settings) ==
  [fn |-> fn, req |-> req, rejected |-> rejected, value |-> value, settings |-> settings]

\* loadGradientSettings is called and suspends at `await storage.get`
LoadGradientSettings ==
  /\ Len(settingsCalls) < MaxLoads
  /\ now < MaxCalls
  /\ now' = now + 1
  /\ settingsCalls' = Append(settingsCalls,
       [fn |-> "loadGradientSettings", req |-> now + 1, settings |-> NoStoredSettings])
  /\ UNCHANGED <<store, saves, loads, settingsArea, outcomes, unhandledRejections,
                 failureIdleVars>>

\* saveGradientSettings is called and suspends at `await storage.set`
SaveGradientSettings(settings) ==
  /\ Len(settingsCalls) < MaxLoads
  /\ now < MaxCalls
  /\ now' = now + 1
  /\ settingsCalls' = Append(settingsCalls,
       [fn |-> "saveGradientSettings", req |-> now + 1, settings |-> settings])
  /\ UNCHANGED <<store, saves, loads, settingsArea, outcomes, unhandledRejections,
                 failureIdleVars>>

\* `await storage.get` of loadGradientSettings settles: the migrated value,
\* the defaults when nothing is stored, the defaults from the catch block
loadGradientSettings_get(i, rejected) ==
  /\ i \in 1..Len(settingsCalls)
  /\ settingsCalls[i].fn = "loadGradientSettings"
  /\ LET value == IF rejected THEN DEFAULT_GRADIENT_SETTINGS
                  ELSE loadGradientSettings(settingsArea)
     IN outcomes' = outcomes \cup
          {Outcome("loadGradientSettings", settingsCalls[i].req,
                   IF rejected THEN "get" ELSE "-", "settings", value)}
  /\ settingsCalls' = Without(settingsCalls, i)
  /\ UNCHANGED <<now, store, saves, loads, settingsArea, unhandledRejections,
                 failureIdleVars>>

\* `await storage.set` of saveGradientSettings settles; the catch block logs
saveGradientSettings_set(i, rejected) ==
  /\ i \in 1..Len(settingsCalls)
  /\ settingsCalls[i].fn = "saveGradientSettings"
  /\ settingsArea' = IF rejected THEN settingsArea ELSE settingsCalls[i].settings
  /\ outcomes' = outcomes \cup
       {Outcome("saveGradientSettings", settingsCalls[i].req,
                IF rejected THEN "set" ELSE "-", "void", NoStoredSettings)}
  /\ settingsCalls' = Without(settingsCalls, i)
  /\ UNCHANGED <<now, store, saves, loads, unhandledRejections, failureIdleVars>>

\* `await albumStorage.get` or `await albumStorage.set` of saveAlbumColors
\* rejects: the catch block logs, and the call returns
saveAlbumColors_rejects(i) ==
  /\ i \in 1..Len(saves)
  /\ outcomes' = outcomes \cup
       {Outcome("saveAlbumColors", saves[i].req, saves[i].pc, "void", NoStoredSettings)}
  /\ saves' = Without(saves, i)
  /\ UNCHANGED <<now, store, loads, settingsArea, settingsCalls, unhandledRejections,
                 failureIdleVars>>

\* `await albumStorage.get` of loadAlbumSettings rejects: null from the
\* catch block
loadAlbumSettings_get_rejects(i) ==
  /\ i \in 1..Len(loads)
  /\ loads[i].pc = "get"
  /\ outcomes' = outcomes \cup
       {Outcome("loadAlbumSettings", 0, "get", "null", NoStoredSettings)}
  /\ loads' = Without(loads, i)
  /\ UNCHANGED <<now, store, saves, settingsArea, settingsCalls, unhandledRejections,
                 failureIdleVars>>

\* the albumStorage.set of loadAlbumSettings (line 102) rejects.  The promise
\* was not awaited and has no handler: the call has returned albumData, the
\* try block is over, and the rejection is unhandled.
loadAlbumSettings_set_rejects(i) ==
  /\ i \in 1..Len(loads)
  /\ loads[i].pc = "set"
  /\ unhandledRejections' = unhandledRejections + 1
  /\ outcomes' = outcomes \cup
       {Outcome("loadAlbumSettings", 0, "set", "albumData", NoStoredSettings)}
  /\ loads' = Without(loads, i)
  /\ UNCHANGED <<now, store, saves, settingsArea, settingsCalls, failureIdleVars>>

NextFailure ==
  \/ \E albumUrl \in FailUrls, colorsManuallyModified \in BOOLEAN :
       saveAlbumColors(albumUrl, MaxPalettes, colorsManuallyModified)
  \/ \E i \in 1..MaxReq : saveAlbumColors_get(i)
  \/ \E i \in 1..MaxReq : saveAlbumColors_set(i)
  \/ \E i \in 1..MaxReq : saveAlbumColors_rejects(i)
  \/ \E albumArtUrl \in FailUrls : loadAlbumSettings(albumArtUrl)
  \/ \E i \in 1..MaxLoads : loadAlbumSettings_get(i)
  \/ \E i \in 1..MaxLoads : loadAlbumSettings_set(i)
  \/ \E i \in 1..MaxLoads : loadAlbumSettings_get_rejects(i)
  \/ \E i \in 1..MaxLoads : loadAlbumSettings_set_rejects(i)
  \/ LoadGradientSettings
  \/ \E settings \in SavedSettings : SaveGradientSettings(settings)
  \/ \E i \in 1..MaxLoads, rejected \in BOOLEAN : loadGradientSettings_get(i, rejected)
  \/ \E i \in 1..MaxLoads, rejected \in BOOLEAN : saveGradientSettings_set(i, rejected)

\* two albums are stored, album 1 among them
InitSpecFailure ==
  /\ InitCtl(DEFAULT_GRADIENT_SETTINGS)
  /\ audioInit = TRUE
  /\ now = 0
  /\ albumSaveDebounceTimer = NoTimer
  /\ store = SubSeq(EarlierStore({}), 1, 2)
  /\ everManual = {}
  /\ saves = <<>>
  /\ reqLog = <<>>
  /\ writeLog = <<>>
  /\ loads = <<>>
  /\ reqBy = <<>>
  /\ useLog = <<>>

SpecFailure == InitSpecFailure /\ [][NextFailure]_vars

\* C29: when the persistent store fails on get or set, loadGradientSettings
\* returns the defaults, loadAlbumSettings returns null, saveGradientSettings
\* and saveAlbumColors return without a write, and no rejection is left
\* unhandled, the one of the lastAccessed write-back of loadAlbumSettings
\* included.
C29_StoreFailuresAreContained ==
  /\ unhandledRejections = 0
  /\ \A o \in outcomes :
       o.rejected # "-" =>
         /\ o.fn = "loadGradientSettings" => o.settings = DEFAULT_GRADIENT_SETTINGS
         /\ o.fn = "loadAlbumSettings" => o.value = "null"
         /\ o.fn \in {"saveGradientSettings", "saveAlbumColors"} => o.value = "void"

(***************************************************************************)
(* SpecKnobs: the numeric knobs of the snapshot the controller holds.      *)
(*                                                                         *)
(* The controller starts from what extension storage holds; the popup      *)
(* merges the stored value over the defaults, changes one key of its copy  *)
(* and sends the copy; a settings file is imported in the popup; the       *)
(* stored value is written by the popup of any profile that syncs it.      *)
(* No page has been entered, so a handler runs to its end at once.         *)
(***************************************************************************)
KnobKeys ==
  {"audioSpeedMultiplier", "audioScaleBoost", "audioBeatThreshold", "kawarpAnimationSpeed"}

\* controlConfig.getControlConfig: the range of a knob, in the units of the
\* settings records (audioBeatThreshold in thousandths)
getControlConfig(key) ==
  IF key = "audioSpeedMultiplier" THEN [min |-> 2, max |-> 8]
  ELSE IF key = "audioScaleBoost" THEN [min |-> 0, max |-> 10]
  ELSE IF key = "audioBeatThreshold" THEN [min |-> 10, max |-> 750]
  ELSE [min |-> 0, max |-> 2]

\* stored values: nothing, the defaults, and two values with a knob outside
\* its range
KnobStores ==
  {NoStoredSettings,
   DEFAULT_GRADIENT_SETTINGS,
   [DEFAULT_GRADIENT_SETTINGS EXCEPT !.audioSpeedMultiplier = 20],
   [DEFAULT_GRADIENT_SETTINGS EXCEPT !.audioResponsive = FALSE, !.kawarpAnimationSpeed = 5]}

\* useGradientSettings.mergedSettings: the stored value over the defaults
mergedSettings(storedSettings) ==
  [k \in DOMAIN DEFAULT_GRADIENT_SETTINGS |->
     IF k \in DOMAIN storedSettings THEN storedSettings[k]
     ELSE DEFAULT_GRADIENT_SETTINGS[k]]

\* useGradientSettings.updateGradientSetting from a slider, which gives a
\* value of its range: the copy with one key replaced
updateGradientSetting(localSettings) ==
  { [localSettings EXCEPT ![key] = value] :
      key \in {"audioSpeedMultiplier"},
      value \in {getControlConfig("audioSpeedMultiplier").min,
                 getControlConfig("audioSpeedMultiplier").max} }

\* what the popup sends while its copy is localSettings
KnobSnapshots(localSettings) ==
  handleToggleChange(localSettings) \cup updateGradientSetting(localSettings)

KnobMessages == UNION {KnobSnapshots(mergedSettings(a)) : a \in KnobStores}

\* typeof of a value of the settings object, by its key
TypeOf(key) ==
  IF key \in {"enabled", "audioResponsive", "showOnBrowsePages", "boostDullColors",
              "rememberAlbumSettings"} THEN "boolean"
  ELSE IF key = "shaderType" THEN "string"
  ELSE "number"

\* useGradientSettings.importSettings of a file whose settings object is
\* importedSettings: the keys of the destructuring pattern are dropped, the
\* rest is laid over the defaults, and every entry must be a boolean (the
\* keys of booleanKeys) or a number; null when one is not
importSettings(importedSettings) ==
  LET dropped == {"shaderType", "boostDullColors", "rememberAlbumSettings",
                  "audioScaleBoost"}
      booleanKeys == {"audioResponsive", "showOnBrowsePages", "enabled"}
      mergedImport ==
        [k \in DOMAIN DEFAULT_GRADIENT_SETTINGS |->
           IF k \in DOMAIN importedSettings /\ k \notin dropped THEN importedSettings[k]
           ELSE DEFAULT_GRADIENT_SETTINGS[k]]
      isValid ==
        \A k \in DOMAIN mergedImport :
          IF k \in booleanKeys THEN TypeOf(k) = "boolean" ELSE TypeOf(k) = "number"
  IN IF isValid THEN mergedImport ELSE NoStoredSettings

knobIdleVars ==
  <<ctlVars, saveVars, loads, everManual, logVars, frameVars, kawarpVars, applied,
    targetWaits, perKey, colorVars, settingsCalls, unhandledRejections, retryVars, artVars, easeVars, cacheVars, meshVars, navVars>>

\* messageHandler: the updateGradientSettings message of the popup
KnobMessage(t, settings) ==
  /\ CanStart(t)
  /\ settings \in KnobSnapshots(mergedSettings(settingsArea))
  /\ kind' = [kind EXCEPT ![t] = "settings"]
  /\ delta' = [delta EXCEPT ![t] = Delta(gradientSettings, settings)]
  /\ TaskStep(t, updateGradientSettings([St EXCEPT !.status[t] = "running",
                                               !.kind[t] = "settings"], t, settings))

\* the popup's setStoredSettings completes
setStoredSettings(newSettings) ==
  /\ settingsArea # newSettings
  /\ settingsArea' = newSettings
  /\ UNCHANGED <<outcomes, knobIdleVars>>

\* the popup's importSettings on a file: a valid object is stored and
\* returned, an invalid one gives the alert and null
ImportSettings(importedSettings) ==
  LET settingsToSave == importSettings(importedSettings)
      isValid == settingsToSave # NoStoredSettings
  IN /\ settingsArea' = IF isValid THEN settingsToSave ELSE settingsArea
     /\ outcomes' = outcomes \cup
          {Outcome("importSettings", 0, "-", IF isValid THEN "settings" ELSE "null",
                   settingsToSave)}
     /\ UNCHANGED knobIdleVars

NextKnobs ==
  \/ \E t \in Tasks, settings \in KnobMessages : KnobMessage(t, settings)
  \/ \E newSettings \in KnobStores : setStoredSettings(newSettings)
  \/ \E importedSettings \in KnobStores \ {NoStoredSettings} :
       ImportSettings(importedSettings)
  \/ \E due \in BOOLEAN, isBeat \in BOOLEAN : AnimationFrame(due, isBeat)

\* gradientController.initializeSettings, line 414: the snapshot is the stored value
InitSpecKnobs ==
  /\ \E storedSettings \in KnobStores :
       InitStored(loadGradientSettings(storedSettings), storedSettings)
  /\ audioInit = TRUE
  /\ InitSave

SpecKnobs == InitSpecKnobs /\ [][NextKnobs]_vars

\* every knob of the record lies in the range of its control
InRange(settings) ==
  \A key \in KnobKeys \cap DOMAIN settings :
    /\ getControlConfig(key).min <= settings[key]
    /\ settings[key] <= getControlConfig(key).max

\* C30: every numeric knob of the snapshot the controller holds, and of the
\* settings the running audio analysis applies, lies within the range of
\* its control, whether the value came in a settings message, from storage
\* or from an imported file.
C30_KnobsWithinRange ==
  /\ InRange(gradientSettings)
  /\ audio.rafId => InRange(audio.settings)

(***************************************************************************)
(* SpecRetry: the three polling loops that start-up sets going.            *)
(*                                                                         *)
(* initializeApp calls initializeAudioAnalysis, which polls for the media  *)
(* element; its timer callback runs checkAndUpdateGradient and the retry   *)
(* loop, and then navigationManager.initialize, whose waitForSongImage     *)
(* polls for the song image.  checkAndUpdateGradient is taken by its       *)
(* outcome: it leaves an active effect or not.                             *)
(***************************************************************************)
STARTUP_RETRIES == 10

retryIdleVars ==
  <<ctlVars, saveVars, loads, everManual, logVars, frameVars, kawarpVars, applied,
    targetWaits, perKey, colorVars, storageVars, artVars, easeVars, cacheVars, meshVars, navVars>>

\* the count of a poll loop, told apart up to MaxPolls
Polled(polls) == IF polls < MaxPolls THEN polls + 1 ELSE polls

\* navigationManager.initialize -> setupSongImageObserver -> waitForSongImage,
\* the first call
waitForSongImage(found) ==
  [phase |-> IF found THEN "observing" ELSE "timer", polls |-> 0]

\* the retry loop from its header with `retries' left: break on an active
\* effect, else sleep 500 ms; after the loop, navigationManager.initialize
loopHeader(loops, retries, active, found) ==
  IF retries > 0 /\ ~active
  THEN [loops EXCEPT !.startup = [phase |-> "sleep", retries |-> retries]]
  ELSE [loops EXCEPT !.startup = [phase |-> "done", retries |-> retries],
                     !.songImage = waitForSongImage(found)]

\* initializeApp: initializeAudioAnalysis is called (its first poll), and
\* the start-up callback is scheduled with setTimeout 0
InitializeApp ==
  /\ retryLoops.startup.phase = "idle"
  /\ retryLoops' =
       [retryLoops EXCEPT
          !.startup = [phase |-> "scheduled", retries |-> STARTUP_RETRIES],
          !.audio = [phase |-> IF awaited.media THEN "initialized" ELSE "timer",
                     polls |-> 0]]
  /\ UNCHANGED <<awaited, retryIdleVars>>

\* the start-up callback: checkAndUpdateGradient, then the loop header
StartupCallback(created) ==
  /\ retryLoops.startup.phase = "scheduled"
  /\ awaited' = [awaited EXCEPT !.effect = @ \/ created]
  /\ retryLoops' = loopHeader(retryLoops, STARTUP_RETRIES, awaited'.effect,
                              awaited.songImage)
  /\ UNCHANGED retryIdleVars

\* the 500 ms timer of the loop body: checkAndUpdateGradient, retries--,
\* and the loop header again
StartupRetry(created) ==
  /\ retryLoops.startup.phase = "sleep"
  /\ awaited' = [awaited EXCEPT !.effect = @ \/ created]
  /\ retryLoops' = loopHeader(retryLoops, retryLoops.startup.retries - 1,
                              awaited'.effect, awaited.songImage)
  /\ UNCHANGED retryIdleVars

\* audioAnalysis.initializeAudioAnalysis from its 1000 ms timer: no element,
\* the same timer again
initializeAudioAnalysis ==
  /\ retryLoops.audio.phase = "timer"
  /\ retryLoops' =
       [retryLoops EXCEPT !.audio =
          IF awaited.media THEN [@ EXCEPT !.phase = "initialized"]
          ELSE [@ EXCEPT !.polls = Polled(@)]]
  /\ UNCHANGED <<awaited, retryIdleVars>>

\* navigationManager.waitForSongImage from its 1000 ms timer
WaitForSongImage ==
  /\ retryLoops.songImage.phase = "timer"
  /\ retryLoops' =
       [retryLoops EXCEPT !.songImage =
          IF awaited.songImage THEN [@ EXCEPT !.phase = "observing"]
          ELSE [@ EXCEPT !.polls = Polled(@)]]
  /\ UNCHANGED <<awaited, retryIdleVars>>

\* audioAnalysis.stopAudioAnalysis clears initTimeoutId (lines 187-190)
ClearInitTimeout ==
  /\ retryLoops.audio.phase = "timer"
  /\ retryLoops' = [retryLoops EXCEPT !.audio.phase = "cleared"]
  /\ UNCHANGED <<awaited, retryIdleVars>>

\* navigationManager.cleanup clears waitForSongImageTimeoutId (lines 214-217)
ClearWaitForSongImage ==
  /\ retryLoops.songImage.phase = "timer"
  /\ retryLoops' = [retryLoops EXCEPT !.songImage.phase = "cleared"]
  /\ UNCHANGED <<awaited, retryIdleVars>>

\* the page gets the media element, or the song image or the player bar
ElementAppears(what) ==
  /\ ~awaited[what]
  /\ awaited' = [awaited EXCEPT ![what] = TRUE]
  /\ UNCHANGED <<retryLoops, retryIdleVars>>

NextRetry ==
  \/ InitializeApp
  \/ \E created \in BOOLEAN : StartupCallback(created)
  \/ \E created \in BOOLEAN : StartupRetry(created)
  \/ initializeAudioAnalysis
  \/ WaitForSongImage
  \/ ClearInitTimeout
  \/ ClearWaitForSongImage
  \/ \E what \in {"media", "songImage"} : ElementAppears(what)

InitSpecRetry ==
  /\ InitCtl([DEFAULT_GRADIENT_SETTINGS EXCEPT !.audioResponsive = FALSE])
  /\ audioInit = TRUE
  /\ InitSave

\* Timers that are due fire.
SpecRetry ==
  /\ InitSpecRetry /\ [][NextRetry]_vars
  /\ WF_vars(\E created \in BOOLEAN : StartupCallback(created))
  /\ WF_vars(\E created \in BOOLEAN : StartupRetry(created))
  /\ WF_vars(initializeAudioAnalysis)
  /\ WF_vars(WaitForSongImage)

\* C31: each of the three loops gives up after a bounded number of tries
\* when what it waits for does not come: the start-up retry loop ends, the
\* wait for the media element ends, and the wait for the song image ends.
C31_RetryLoopsGiveUp ==
  /\ retryLoops.startup.phase = "sleep" ~> retryLoops.startup.phase = "done"
  /\ retryLoops.audio.phase = "timer" ~>
       (retryLoops.audio.phase # "timer" \/ awaited.media)
  /\ retryLoops.songImage.phase = "timer" ~>
       (retryLoops.songImage.phase # "timer" \/ awaited.songImage)

(***************************************************************************)
(* SpecBrowse: the controller of Spec, started by an earlier session that  *)
(* left showOnBrowsePages on.                                              *)
(***************************************************************************)
InitSpecBrowse ==
  /\ InitCtl([DEFAULT_GRADIENT_SETTINGS EXCEPT !.showOnBrowsePages = TRUE])
  /\ InitSave

SpecBrowse == InitSpecBrowse /\ [][Next]_vars

\* a rendering handle of either variant is live on a browse surface
BrowseHandleLive ==
  \E loc \in {"homepage", "search"} :
    \/ shaders[loc].mount
    \/ kawarps[loc].instance
    \/ leakedMounts[loc] # NoLeak
    \/ leakedInstances[loc] # NoLeak

\* C32: showOnBrowsePages was on at the start and is off, so a settings
\* update has turned it off and none has turned it on again; once the
\* settings updates have completed and everything started has settled, no
\* rendering handle of either variant is live on homepage or search.
C32_NoBrowseHandleAfterOff ==
  (/\ ~gradientSettings.showOnBrowsePages
   /\ \A t \in Tasks : kind[t] = "settings" => status[t] = "done"
   /\ Settled)
  => ~BrowseHandleLive

(***************************************************************************)
(* SpecArtwork: the animated-artwork module.                               *)
(*                                                                         *)
(* Tracks are told apart by their videoId; null is 0.  A lookup is a       *)
(* tryFetchArtwork call past its guards; it suspends in extractAlbumFromDOM *)
(* (pc "dom") and in fetch (pc "fetch").  The abort controller of a lookup *)
(* has the lookup's number.  The cache holds far fewer than its 50 entries, *)
(* so pruneCache removes nothing.  The player page with #thumbnail is shown. *)
(***************************************************************************)
VideoIds == {1, 2}

artworkIdleVars ==
  <<ctlVars, saveVars, loads, everManual, logVars, frameVars, kawarpVars, applied,
    targetWaits, perKey, colorVars, storageVars, retryVars, easeVars, cacheVars, meshVars, navVars>>

\* abortPendingFetch, lines 853-858
abortPendingFetch(A) ==
  IF A.pendingFetch = 0 THEN A
  ELSE [A EXCEPT !.lookups[A.pendingFetch].aborted = TRUE, !.pendingFetch = 0]

\* removeAnimatedArt, lines 1125-1134
removeAnimatedArt(A) == [A EXCEPT !.video = 0]

\* injectAnimatedArt, lines 1106-1123
injectAnimatedArt(A, videoId) == [A EXCEPT !.video = videoId]

\* getCacheKey of a lookup: the track's song and artist, and the album found
getCacheKey(L) == <<L.videoId, L.album>>

\* tryFetchArtwork after `await fetchArtworkUrl`, lines 1166-1176, with the
\* guard of line 1170 left out
tryFetchArtwork_fetched_noGuard(A, i, videoUrl) ==
  LET L == A.lookups[i]
      A1 == [A EXCEPT !.pendingFetch = 0, !.lookups[i].pc = "done"]
      A2 == [A1 EXCEPT !.changes = @ \cup
               {[op |-> IF videoUrl THEN "inject" ELSE "remove", videoId |-> L.videoId,
                 isEnabled |-> A1.isEnabled, current |-> A1.currentPlayerData]}]
  IN IF videoUrl THEN injectAnimatedArt(A2, L.videoId) ELSE removeAnimatedArt(A2)

\* tryFetchArtwork after `await fetchArtworkUrl`, lines 1166-1176
tryFetchArtwork_fetched(A, i, videoUrl) ==
  LET L == A.lookups[i]
      A1 == [A EXCEPT !.pendingFetch = 0, !.lookups[i].pc = "done"]
  IN IF ~A1.isEnabled \/ L.videoId # A1.currentPlayerData THEN A1
     ELSE tryFetchArtwork_fetched_noGuard(A, i, videoUrl)

\* tryFetchArtwork from line 1162 to the await of fetch: a new controller;
\* fetchArtworkUrl returns a cached answer without a request
tryFetchArtwork_fetch(A, i) ==
  LET L == A.lookups[i]
      A1 == [A EXCEPT !.pendingFetch = i, !.fetches = @ + 1]
      cached == {c \in A.artworkCache : c.key = getCacheKey(L)}
  IN IF cached # {}
     THEN tryFetchArtwork_fetched(A1, i, (CHOOSE c \in cached : TRUE).videoUrl)
     ELSE [A1 EXCEPT !.lookups[i].pc = "fetch", !.lookups[i].fetchNo = A1.fetches]

\* tryFetchArtwork, lines 1136-1160; byline: extractAlbumFromDOMOnce finds the
\* album at its first try
tryFetchArtwork(A, byline) ==
  IF ~A.isEnabled \/ A.currentPlayerData = 0 THEN A
  ELSE IF A.currentPlayerData = A.lastProcessedVideoId THEN A
  ELSE
    LET videoId == A.currentPlayerData
        i == A.started + 1
        inMap == videoId \in A.videoIdToAlbumMap
        A1 == abortPendingFetch([A EXCEPT !.lastProcessedVideoId = videoId])
        A2 == [A1 EXCEPT !.started = i,
                         !.lookups[i] = [NoLookup EXCEPT !.pc = "dom", !.videoId = videoId,
                                                         !.album = inMap \/ byline]]
    IN IF inMap THEN tryFetchArtwork_fetch(A2, i)
       ELSE IF byline
         THEN tryFetchArtwork_fetch([A2 EXCEPT !.videoIdToAlbumMap = @ \cup {videoId}], i)
       ELSE A2

\* handlePlayerTime, lines 1179-1198
HandlePlayerTime(videoId, byline) ==
  /\ animatedArt.isEnabled
  /\ animatedArt.started < MaxLookups
  /\ LET A == animatedArt
         A1 == IF A.currentPlayerData # 0 /\ A.currentPlayerData # videoId
               THEN [removeAnimatedArt(abortPendingFetch(A)) EXCEPT
                       !.lastProcessedVideoId = 0]
               ELSE A
     IN animatedArt' = tryFetchArtwork([A1 EXCEPT !.currentPlayerData = videoId], byline)
  /\ UNCHANGED artworkIdleVars

\* handleApiResponse, lines 1200-1218: a /next response names the album of
\* videoId
HandleApiResponse(videoId, byline) ==
  /\ animatedArt.isEnabled
  /\ animatedArt.started < MaxLookups
  /\ animatedArt' =
       tryFetchArtwork([animatedArt EXCEPT !.videoIdToAlbumMap = @ \cup {videoId}], byline)
  /\ UNCHANGED artworkIdleVars

\* extractAlbumFromDOM of lookup i returns after its timers: the album of
\* the byline, or null after ten tries
AlbumExtracted(i, album) ==
  /\ animatedArt.lookups[i].pc = "dom"
  /\ LET A == animatedArt
         A1 == IF album
               THEN [A EXCEPT !.lookups[i].album = TRUE,
                              !.videoIdToAlbumMap = @ \cup {A.lookups[i].videoId}]
               ELSE A
     IN animatedArt' = tryFetchArtwork_fetch(A1, i)
  /\ UNCHANGED artworkIdleVars

\* the fetch of lookup i settles.  response: "video" and "none" are answers
\* of the service, which are cached; "error" is a status that is not ok or a
\* rejection, the only outcome of an aborted request
ArtworkFetchSettles(i, response) ==
  /\ animatedArt.lookups[i].pc = "fetch"
  /\ animatedArt.lookups[i].aborted => response = "error"
  /\ LET A == animatedArt
         A1 == IF response = "error" THEN A
               ELSE [A EXCEPT !.artworkCache =
                       {c \in @ : c.key # getCacheKey(A.lookups[i])} \cup
                       {[key |-> getCacheKey(A.lookups[i]), videoUrl |-> response = "video"]}]
     IN animatedArt' = tryFetchArtwork_fetched(A1, i, response = "video")
  /\ UNCHANGED artworkIdleVars

\* setEnabled, lines 1229-1239, and cleanup, lines 1241-1254
SetEnabled(enabled) ==
  /\ enabled # animatedArt.isEnabled
  /\ animatedArt' =
       IF enabled THEN [animatedArt EXCEPT !.isEnabled = TRUE]
       ELSE [removeAnimatedArt(abortPendingFetch(animatedArt)) EXCEPT
               !.currentPlayerData = 0, !.lastProcessedVideoId = 0,
               !.videoIdToAlbumMap = {}, !.isEnabled = FALSE]
  /\ UNCHANGED artworkIdleVars

NextArtwork ==
  \/ \E videoId \in VideoIds, byline \in BOOLEAN : HandlePlayerTime(videoId, byline)
  \/ \E videoId \in VideoIds, byline \in BOOLEAN : HandleApiResponse(videoId, byline)
  \/ \E i \in 1..MaxLookups, album \in BOOLEAN : AlbumExtracted(i, album)
  \/ \E i \in 1..MaxLookups, response \in {"video", "none", "error"} :
       ArtworkFetchSettles(i, response)
  \/ \E enabled \in BOOLEAN : SetEnabled(enabled)

InitSpecArtwork ==
  /\ InitCtl([DEFAULT_GRADIENT_SETTINGS EXCEPT !.audioResponsive = FALSE])
  /\ audioInit = TRUE
  /\ InitSave

SpecArtwork == InitSpecArtwork /\ [][NextArtwork]_vars

\* the lookups whose request is in flight and has not been aborted
LiveFetches ==
  {i \in 1..MaxLookups :
     animatedArt.lookups[i].pc = "fetch" /\ ~animatedArt.lookups[i].aborted}

\* C33: a request in flight for a track other than the current one has been
\* aborted; at most one request that was not aborted is in flight; and the
\* pending abort controller is the one of the request started last.
C33_OneLiveFetch ==
  /\ \A i \in LiveFetches : animatedArt.lookups[i].videoId = animatedArt.currentPlayerData
  /\ Cardinality(LiveFetches) <= 1
  /\ \A i \in LiveFetches :
       (\A j \in LiveFetches : animatedArt.lookups[j].fetchNo <= animatedArt.lookups[i].fetchNo)
         => animatedArt.pendingFetch = i

\* C40: every injection or removal of the video element that tryFetchArtwork
\* made happened with animated art enabled and on the result of a lookup
\* for the track that was current at that moment.
C40_OnlyCurrentTrackChangesPage ==
  \A c \in animatedArt.changes : c.isEnabled /\ c.videoId = c.current

\* C40 witness: the lookup for track 2 was overtaken by track 1 while its
\* request was in flight and has ended without touching the page; the
\* lookup for track 1 has injected its video.
C40_Witness ==
  /\ animatedArt.currentPlayerData = 1
  /\ animatedArt.video = 1
  /\ animatedArt.lookups[1].videoId = 2 /\ animatedArt.lookups[1].pc = "done"
  /\ animatedArt.lookups[1].fetchNo = 2
  /\ ~animatedArt.lookups[1].aborted
  /\ animatedArt.lookups[2].videoId = 1 /\ animatedArt.lookups[2].pc = "done"
  /\ animatedArt.changes =
       {[op |-> "inject", videoId |-> 1, isEnabled |-> TRUE, current |-> 1]}

\* ---------------------------------------------------------------------
\* SpecEase: pauseKawarp, resumeKawarp and the speed ramp of one surface
\* (src/unnamed/part_012, lines 316-339 and 826-872), speeds in millionths.

MaxEaseCalls == 2            \* pauseKawarp and resumeKawarp calls per run
MaxVisibilityChanges == 1    \* IntersectionObserver callbacks per run
SPEED_THRESHOLD_millionths == 1000    \* SPEED_THRESHOLD = 0.001

\* kawarpAnimationSpeed and speedMultiplier of the create, in thousandths
EaseSpeeds == {20}
EaseMultipliers == {1000, 1500}

easeIdleVars ==
  <<ctlVars, saveVars, loads, everManual, logVars, frameVars, kawarpVars, applied,
    targetWaits, perKey, colorVars, storageVars, retryVars, artVars, cacheVars, meshVars, navVars>>

\* diff * lerpFactor, the factor in hundredths
Eased(diff, percent) ==
  IF diff < 0 THEN -(((-diff) * percent) \div 100) ELSE (diff * percent) \div 100

\* animateSpeed(state), lines 316-339
animateSpeed_state(state) ==
  LET diff == state.targetSpeed - state.currentSpeed
      abs == IF diff < 0 THEN -diff ELSE diff
  IN IF ~state.instance THEN [state EXCEPT !.speedAnimationId = FALSE]
     ELSE IF abs < SPEED_THRESHOLD_millionths
     THEN [state EXCEPT !.currentSpeed = state.targetSpeed,
                        !.animationSpeed = state.targetSpeed,
                        !.speedAnimationId = FALSE,
                        !.running = IF state.targetSpeed = 0 THEN FALSE ELSE @]
     ELSE LET speed == state.currentSpeed
                         + Eased(diff, IF diff > 0 THEN SPEED_LERP_UP ELSE SPEED_LERP_DOWN)
          IN [state EXCEPT !.currentSpeed = speed, !.animationSpeed = speed,
                           !.speedAnimationId = TRUE]

\* pauseForLocation of pauseKawarp, lines 827-838
pauseForLocation(state) ==
  IF ~state.instance \/ state.isPaused THEN state
  ELSE [state EXCEPT !.isPaused = TRUE, !.targetSpeed = 0, !.speedAnimationId = TRUE]

\* resumeForLocation of resumeKawarp, lines 849-863
resumeForLocation(state) ==
  IF ~state.instance \/ ~state.isVisible \/ ~state.isPaused THEN state
  ELSE [state EXCEPT !.isPaused = FALSE, !.running = TRUE,
                     !.targetSpeed = state.lastSettings * state.lastMultipliers,
                     !.speedAnimationId = TRUE]

\* createKawarp, lines 543-570: the instance is made with the dynamic speed
\* and started
EaseCreate(kawarpAnimationSpeed, speedMultiplier) ==
  /\ ~ease.instance
  /\ ease' = [ease EXCEPT !.instance = TRUE, !.running = TRUE,
                          !.animationSpeed = kawarpAnimationSpeed * speedMultiplier,
                          !.currentSpeed = kawarpAnimationSpeed * speedMultiplier,
                          !.targetSpeed = kawarpAnimationSpeed * speedMultiplier,
                          !.lastSettings = kawarpAnimationSpeed,
                          !.lastMultipliers = speedMultiplier]
  /\ UNCHANGED easeIdleVars

\* pauseKawarp(location)
EasePause ==
  /\ ease.instance
  /\ ease.calls < MaxEaseCalls
  /\ ease' = [pauseForLocation(ease) EXCEPT !.calls = @ + 1]
  /\ UNCHANGED easeIdleVars

\* resumeKawarp(location)
EaseResume ==
  /\ ease.instance
  /\ ease.calls < MaxEaseCalls
  /\ ease' = [resumeForLocation(ease) EXCEPT !.calls = @ + 1,
                                             !.resumed = @ \/ ease.isPaused]
  /\ UNCHANGED easeIdleVars

\* the animation frame pauseKawarp, resumeKawarp or animateSpeed requested
EaseFrame ==
  /\ ease.speedAnimationId
  /\ ease' = animateSpeed_state(ease)
  /\ UNCHANGED easeIdleVars

\* the IntersectionObserver callback of createKawarp, lines 575-591
EaseIntersection(isVisible) ==
  /\ ease.instance
  /\ ease.changes < MaxVisibilityChanges
  /\ ease.isVisible # isVisible
  /\ ease' = [ease EXCEPT !.isVisible = isVisible, !.running = isVisible,
                          !.changes = @ + 1]
  /\ UNCHANGED easeIdleVars

NextEase ==
  \/ \E speed \in EaseSpeeds, multiplier \in EaseMultipliers : EaseCreate(speed, multiplier)
  \/ EasePause
  \/ EaseResume
  \/ EaseFrame
  \/ \E isVisible \in BOOLEAN : EaseIntersection(isVisible)

InitSpecEase ==
  /\ InitCtl([DEFAULT_GRADIENT_SETTINGS EXCEPT !.audioResponsive = FALSE])
  /\ audioInit = TRUE
  /\ InitSave

\* the browser runs a requested animation frame
SpecEase == InitSpecEase /\ [][NextEase]_vars /\ WF_vars(EaseFrame)

\* C34: once pauseKawarp has paused a live surface, its eased speed gets to
\* exactly 0 with the instance stopped and no frame requested (unless
\* resumeKawarp is called first); once resumeKawarp has been called on the
\* paused surface, its eased speed gets to lastSettings.kawarpAnimationSpeed
\* x lastMultipliers.speedMultiplier and the surface is not paused.
C34_PauseAndResumeConverge ==
  /\ (ease.isPaused /\ ~ease.resumed)
       ~> (\/ ease.currentSpeed = 0 /\ ~ease.running /\ ~ease.speedAnimationId
           \/ ease.resumed)
  /\ ease.resumed
       ~> (/\ ~ease.isPaused
           /\ ease.currentSpeed = ease.lastSettings * ease.lastMultipliers)

\* ---------------------------------------------------------------------
\* SpecCache: extractColorsFromImage calls for many covers
\* (colorExtraction.ts, lines 45-50, 103-107 and 196-197).

MaxCacheCalls == 13    \* extractColorsFromImage calls that miss the cache, per run
MaxPending == 2        \* calls between their cache test and their store

cacheIdleVars ==
  <<ctlVars, saveVars, loads, everManual, logVars, frameVars, kawarpVars, applied,
    targetWaits, perKey, extracts, boosted, storageVars, retryVars, artVars, easeVars, meshVars, navVars>>

\* the call's cacheKey and the palette it stores
CoverSettings == CHOOSE settings \in BoostSettings : settings.boostIntensity = 50
CoverKey(cover) == cacheKey(cover, FALSE, CoverSettings)
CoverPalette == onload("good", "cover2", FALSE, CoverSettings).colorsHsl

\* the covers that have an entry
Cached == {c \in 1..MaxCovers : cacheHas(imageCache, CoverKey(c))}

\* extractColorsFromImage(img) to its cache test, lines 103-107: a hit
\* returns the entry, a miss goes on to fetch the cover.  The cover is the
\* first, the latest or a new one.
ExtractCover(cover) ==
  /\ cacheLog.calls < MaxCacheCalls
  /\ cover \in {1, cacheLog.fresh, cacheLog.fresh + 1}
  /\ cacheHas(imageCache, CoverKey(cover)) \/ Len(cacheLog.pending) < MaxPending
  /\ cacheLog' =
       IF cacheHas(imageCache, CoverKey(cover)) THEN cacheLog
       ELSE [cacheLog EXCEPT
               !.calls = @ + 1,
               !.fresh = IF cover > @ THEN cover ELSE @,
               !.pending = Append(@, cover)]
  /\ UNCHANGED <<imageCache, cacheIdleVars>>

\* proxyImg.onload of a call with a palette, lines 196-197: manageCacheSize()
\* and imageCache.set(cacheKey, colorsHsl)
CoverStored(i) ==
  /\ i <= Len(cacheLog.pending)
  /\ LET cover == cacheLog.pending[i]
         evicts == Len(imageCache) > MAX_CACHE_SIZE
         firstKey == imageCache[1].key[1]
         managed == IF evicts THEN [cacheLog.stamp EXCEPT ![firstKey] = 0]
                    ELSE cacheLog.stamp
         inserted == managed[cover] = 0
     IN /\ imageCache' = cacheSet(imageCache, CoverKey(cover), CoverPalette)
        /\ cacheLog' =
             [cacheLog EXCEPT
                !.pending = SubSeq(@, 1, i - 1) \o SubSeq(@, i + 1, Len(@)),
                !.inserts = IF inserted THEN @ + 1 ELSE @,
                !.stamp = IF inserted
                          THEN [managed EXCEPT ![cover] = cacheLog.inserts + 1]
                          ELSE managed,
                !.evictions =
                   IF evicts
                   THEN @ \cup {[cover |-> firstKey,
                                 earliest |->
                                   \A c \in Cached :
                                     cacheLog.stamp[firstKey] <= cacheLog.stamp[c]]}
                   ELSE @]
  /\ UNCHANGED cacheIdleVars

NextCache ==
  \/ \E cover \in 1..MaxCovers : ExtractCover(cover)
  \/ \E i \in 1..MaxPending : CoverStored(i)

InitSpecCache ==
  /\ InitCtl([DEFAULT_GRADIENT_SETTINGS EXCEPT !.audioResponsive = FALSE])
  /\ audioInit = TRUE
  /\ InitSave

SpecCache == InitSpecCache /\ [][NextCache]_vars

\* C35: the palette cache never holds more than MAX_CACHE_SIZE entries, and
\* every entry that was deleted to make room was the one inserted earliest.
C35_CacheBoundedOldestFirst ==
  /\ Len(imageCache) <= MAX_CACHE_SIZE
  /\ \A e \in cacheLog.evictions : e.earliest

\* ---------------------------------------------------------------------
\* SpecMesh: the speed of one mesh surface (shaderManager.ts, lines 169-213
\* and 259-325) under the calls of gradientController.ts.

MaxMeshCalls == 5      \* handler runs per run

MeshSpeeds == {1, 2}                                  \* settings.speed
MeshMultipliers == {1, DEFAULT_audioSpeedMultiplier}  \* speedMultiplier
MeshColors == {1, 2}

meshIdleVars ==
  <<ctlVars, saveVars, loads, everManual, logVars, frameVars, kawarpVars, applied,
    targetWaits, perKey, colorVars, storageVars, retryVars, artVars, easeVars,
    cacheVars, navVars>>

\* updateShaderColors(colors, settings, multipliers), lines 259-287
updateShaderColors_state(state, colors, settings, multipliers) ==
  IF ~state.mount THEN state
  ELSE [state EXCEPT !.colors = colors,
                     !.lastSettings = settings,
                     !.lastMultipliers = multipliers]

\* updateForLocation of updateShaderSettings, lines 295-315
updateForLocation_shader(state, settings, multipliers) ==
  IF ~state.mount \/ state.colors = 0 THEN state
  ELSE IF settings = state.lastSettings /\ multipliers = state.lastMultipliers THEN state
  ELSE [state EXCEPT !.speed = IF state.isVisible THEN settings * multipliers ELSE 0,
                     !.lastSettings = settings,
                     !.lastMultipliers = multipliers]

\* multipliers.speedMultiplier, read through the reference the observer
\* callback holds
closureMultiplier(state) ==
  IF state.closure.multipliers = "reusable" THEN state.reusable ELSE 1

\* updateGradientDirect, lines 136-141, without a mesh surface: createShader
\* from `state.colors = colors`, lines 169-213
MeshCreate(colors) ==
  /\ ~mesh.mount
  /\ mesh.calls < MaxMeshCalls
  /\ mesh' = [mesh EXCEPT
       !.mount = TRUE,
       !.colors = colors,
       !.lastSettings = mesh.gradientSettings,
       !.lastMultipliers = mesh.dynamicMultipliers.speedMultiplier,
       !.speed = mesh.gradientSettings * mesh.dynamicMultipliers.speedMultiplier,
       !.closure = [settings |-> mesh.gradientSettings,
                    multipliers |-> mesh.dynamicMultipliers.object],
       !.calls = @ + 1]
  /\ UNCHANGED meshIdleVars

\* updateGradientDirect, lines 136-138, with a mesh surface
MeshUpdateColors(colors) ==
  /\ mesh.mount
  /\ mesh.calls < MaxMeshCalls
  /\ mesh' = [updateShaderColors_state(mesh, colors, mesh.gradientSettings,
                                       mesh.dynamicMultipliers.speedMultiplier)
                EXCEPT !.calls = @ + 1]
  /\ UNCHANGED meshIdleVars

\* updateGradientSettings, lines 357 and 408-409: gradientSettings is the
\* new settings object
MeshUpdateSettings(speed) ==
  /\ mesh.calls < MaxMeshCalls
  /\ mesh' = [updateForLocation_shader(mesh, speed, mesh.dynamicMultipliers.speedMultiplier)
                EXCEPT !.gradientSettings = speed, !.calls = @ + 1]
  /\ UNCHANGED meshIdleVars

\* a beat tick: audio analysis writes its multipliers object and calls
\* handleBeatDetected, lines 76-83
MeshBeat(speedMultiplier) ==
  /\ mesh.calls < MaxMeshCalls
  /\ mesh' = [updateForLocation_shader(mesh, mesh.gradientSettings, speedMultiplier)
                EXCEPT !.reusable = speedMultiplier,
                       !.dynamicMultipliers =
                          [object |-> "reusable", speedMultiplier |-> speedMultiplier],
                       !.calls = @ + 1]
  /\ UNCHANGED meshIdleVars

\* the IntersectionObserver callback of createShader, lines 196-209
MeshIntersection(isVisible) ==
  /\ mesh.mount
  /\ mesh.calls < MaxMeshCalls
  /\ mesh.isVisible # isVisible
  /\ mesh' = [mesh EXCEPT
       !.isVisible = isVisible,
       !.speed = IF isVisible THEN mesh.closure.settings * closureMultiplier(mesh) ELSE 0,
       !.calls = @ + 1]
  /\ UNCHANGED meshIdleVars

NextMesh ==
  \/ \E colors \in MeshColors : MeshCreate(colors)
  \/ \E colors \in MeshColors : MeshUpdateColors(colors)
  \/ \E speed \in MeshSpeeds : MeshUpdateSettings(speed)
  \/ \E speedMultiplier \in MeshMultipliers : MeshBeat(speedMultiplier)
  \/ \E isVisible \in BOOLEAN : MeshIntersection(isVisible)

InitSpecMesh ==
  /\ InitCtl([DEFAULT_GRADIENT_SETTINGS EXCEPT !.shaderType = "mesh"])
  /\ audioInit = TRUE
  /\ InitSave

SpecMesh == InitSpecMesh /\ [][NextMesh]_vars

\* C36: the speed of a live mesh surface's mount is 0 while the surface is
\* not visible and lastSettings.speed x lastMultipliers.speedMultiplier
\* while it is visible.
C36_MeshSpeedFollowsVisibility ==
  mesh.mount =>
    mesh.speed = IF mesh.isVisible THEN mesh.lastSettings * mesh.lastMultipliers ELSE 0

\* C37: the write-back of loadAlbumSettings keeps every record that a
\* saveAlbumColors call has stored (in SpecStore the records with the
\* colours MaxPalettes), with its colours and its flag.
C37_WriteBackKeepsSavedRecords ==
  [][(\E i \in 1..MaxLoads : loadAlbumSettings_set(i)) =>
       \A k \in 1..Len(store) :
         store[k].colors = MaxPalettes =>
           \E j \in 1..Len(store') :
             /\ store'[j].key = store[k].key
             /\ store'[j].colors = store[k].colors
             /\ store'[j].colorsManuallyModified = store[k].colorsManuallyModified]_vars

\* ---------------------------------------------------------------------
\* SpecNavigation: the page events and the debounce of navigationManager
\* (src/unnamed/part_012, lines 18-40, 93-119 and 122-142).

MaxNavEvents == 3      \* page events per run

navIdleVars ==
  <<ctlVars, saveVars, loads, everManual, logVars, frameVars, kawarpVars, applied,
    targetWaits, perKey, colorVars, storageVars, retryVars, artVars, easeVars,
    cacheVars, meshVars>>

\* debouncedUpdate(), lines 22-32, to the setTimeout
debouncedUpdate_call(N) ==
  IF N.isProcessing THEN N ELSE [N EXCEPT !.timeoutId = TRUE]

\* the songImageObserver callback on a new src or a new child, lines 45-55
SongImageChanged ==
  /\ nav.events < MaxNavEvents
  /\ nav' = [debouncedUpdate_call(nav) EXCEPT !.events = @ + 1, !.unreconciled = TRUE]
  /\ UNCHANGED navIdleVars

\* navigationHandler on yt-navigate-finish or popstate, lines 96-114, the
\* video id having changed
NavigationHandler(currentVideoId) ==
  /\ nav.events < MaxNavEvents
  /\ currentVideoId # nav.lastVideoId
  /\ nav' = [debouncedUpdate_call(nav) EXCEPT
               !.lastVideoId = currentVideoId,
               !.navigationRetryTimeoutId = TRUE,
               !.events = @ + 1, !.unreconciled = TRUE]
  /\ UNCHANGED navIdleVars

\* the 1500 ms timer of navigationHandler, lines 108-112
NavigationRetry ==
  /\ nav.navigationRetryTimeoutId
  /\ nav' = [debouncedUpdate_call(nav) EXCEPT !.navigationRetryTimeoutId = FALSE]
  /\ UNCHANGED navIdleVars

\* videoPlayHandler on play or loadeddata with a new video.src, lines 125-137
VideoPlayHandler ==
  /\ nav.events < MaxNavEvents
  /\ nav' = [nav EXCEPT !.videoTimeouts = @ + 1, !.events = @ + 1]
  /\ UNCHANGED navIdleVars

\* the 500 ms timer of videoPlayHandler, lines 134-136
VideoTimeout ==
  /\ nav.videoTimeouts > 0
  /\ nav' = [debouncedUpdate_call(nav) EXCEPT !.videoTimeouts = @ - 1]
  /\ UNCHANGED navIdleVars

\* the 300 ms timer of debouncedUpdate, lines 26-31: updateCallback() starts
DebounceTimeout ==
  /\ nav.timeoutId
  /\ nav' = [nav EXCEPT !.timeoutId = FALSE, !.isProcessing = TRUE,
                        !.runs = @ + 1, !.unreconciled = FALSE]
  /\ UNCHANGED navIdleVars

\* updateCallback()'s promise settles: the finally callback, lines 28-30
UpdateSettled ==
  /\ nav.isProcessing
  /\ nav' = [nav EXCEPT !.isProcessing = FALSE]
  /\ UNCHANGED navIdleVars

NextNavigation ==
  \/ SongImageChanged
  \/ \E currentVideoId \in VideoIds : NavigationHandler(currentVideoId)
  \/ NavigationRetry
  \/ VideoPlayHandler
  \/ VideoTimeout
  \/ DebounceTimeout
  \/ UpdateSettled

InitSpecNavigation ==
  /\ InitCtl([DEFAULT_GRADIENT_SETTINGS EXCEPT !.audioResponsive = FALSE])
  /\ audioInit = TRUE
  /\ InitSave

\* timers fire and checkAndUpdateGradient settles
SpecNavigation ==
  /\ InitSpecNavigation /\ [][NextNavigation]_vars
  /\ WF_vars(NavigationRetry) /\ WF_vars(VideoTimeout)
  /\ WF_vars(DebounceTimeout) /\ WF_vars(UpdateSettled)

\* C38: after an artwork change or a navigation, an updateCallback call
\* (checkAndUpdateGradient) starts.
C38_EventsAreReconciled == nav.unreconciled ~> ~nav.unreconciled

\* an undisposed ShaderMount / Kawarp instance of the surface key, in its
\* registry record or not
MeshHandleLive(loc) == shaders[loc].mount \/ leakedMounts[loc] # NoLeak
KawarpHandleLive(loc) == kawarps[loc].instance \/ leakedInstances[loc] # NoLeak

\* C39: when every started reconciliation, colour update and settings update
\* has settled, every live handle is of the selected variant: no mesh mount
\* while kawarp is selected, no kawarp instance while mesh is selected.
C39_HandlesOfSelectedVariant ==
  Settled =>
    /\ gradientSettings.shaderType = "kawarp" => \A loc \in Locs : ~MeshHandleLive(loc)
    /\ gradientSettings.shaderType = "mesh" => \A loc \in Locs : ~KawarpHandleLive(loc)

====
